---- MODULE Spec2Model ----
(***************************************************************************)
(* A model of the rustron SysEx codec (rustron-lib/src/protocol.rs and     *)
(* rustron-lib/src/parser.rs).  Bytes are the integers 0..255, a Vec<u8>   *)
(* or &[u8] is a sequence of bytes, an enum value is the string of its     *)
(* Rust name, and an enum variant with a payload is the tuple              *)
(* <<variant name, payload...>>.  A Percent is the record [value |-> n],   *)
(* as the struct in protocol.rs.  A String is the sequence of its Unicode  *)
(* scalar values.                                                          *)
(***************************************************************************)
EXTENDS Integers, Sequences, FiniteSets, TLC

VARIABLES call, arg, ret, bytes, source

\* the fields of App (src/app.rs)
VARIABLES tabs, connection, neutron_state, command_history, midi_in_messages,
          midi_receiver, basic_menu, log, log_receiver, should_quit

app == <<tabs, connection, neutron_state, command_history, midi_in_messages,
         midi_receiver, basic_menu, log, log_receiver, should_quit>>

vars == <<call, arg, ret, bytes, source, app>>

(***************************************************************************)
(* Bounds of the model.                                                    *)
(***************************************************************************)
\* longest version string drawn from VersionChars
MaxVersionLen == 2
\* most commands sent in a run, and most of them sent from the menu
MaxCommands == 2
MaxMenuCommands == 1
\* most buffers the MIDI input delivers in a run
MaxDelivered == 2
\* most lines logged in a run
MaxLogLines == 2
\* longest of the short lists a ListState is built over
MaxItems == 3

(***************************************************************************)
(* protocol.rs: constants                                                  *)
(***************************************************************************)
Byte == 0..255

SYSEX_MESSAGE_START == 240
SYSEX_EOX == 247
BEHRINGER_MANUFACTURER == <<0, 32, 50>>
NEUTRON_DEVICE == 40
NEUTRON_MESSAGE_HEADER ==
    <<SYSEX_MESSAGE_START,
      BEHRINGER_MANUFACTURER[1],
      BEHRINGER_MANUFACTURER[2],
      BEHRINGER_MANUFACTURER[3],
      NEUTRON_DEVICE>>
MAYBE_STATIC == <<40, 127, 10>>
COMMS_PROTOCOL_V1 == 1

Min(a, b) == IF a < b THEN a ELSE b

\* Vec::push
push(buffer, b) == Append(buffer, b)

\* Vec::extend_from_slice
extend_from_slice(buffer, slice) == buffer \o slice

(***************************************************************************)
(* protocol.rs: the value enums and their as_byte tables                   *)
(***************************************************************************)
ToggleOption == {"On", "Off"}

ToggleOption_as_byte(t) ==
    CASE t = "On" -> 1
      [] t = "Off" -> 0

BlendMode == {"Switch", "Blend"}

BlendMode_as_byte(b) ==
    CASE b = "Switch" -> 1
      [] b = "Blend" -> 0

OscRange == {"ThirtyTwo", "Sixteen", "Eight", "PlusMinusTen"}

OscRange_as_byte(r) ==
    CASE r = "ThirtyTwo" -> 0
      [] r = "Sixteen" -> 1
      [] r = "Eight" -> 2
      [] r = "PlusMinusTen" -> 3

KeyTrackMode == {"Track", "Hold"}

KeyTrackMode_as_byte(k) ==
    CASE k = "Track" -> 0
      [] k = "Hold" -> 1

AutoglideSemitonesOrder ==
    <<"MinusTwelve", "MinusEleven", "MinusTen", "MinusNine", "MinusEight",
      "MinusSeven", "MinusSix", "MinusFive", "MinusFour", "MinusThree",
      "MinusTwo", "MinusOne", "Zero", "PlusOne", "PlusTwo", "PlusThree",
      "PlusFour", "PlusFive", "PlusSix", "PlusSeven", "PlusEight",
      "PlusNine", "PlusTen", "PlusEleven", "PlusTwelve">>

AutoglideSemitones == {AutoglideSemitonesOrder[i] : i \in 1..Len(AutoglideSemitonesOrder)}

AutoglideSemitones_as_byte(s) ==
    CASE s = "MinusTwelve" -> 0
      [] s = "MinusEleven" -> 1
      [] s = "MinusTen" -> 2
      [] s = "MinusNine" -> 3
      [] s = "MinusEight" -> 4
      [] s = "MinusSeven" -> 5
      [] s = "MinusSix" -> 6
      [] s = "MinusFive" -> 7
      [] s = "MinusFour" -> 8
      [] s = "MinusThree" -> 9
      [] s = "MinusTwo" -> 10
      [] s = "MinusOne" -> 11
      [] s = "Zero" -> 12
      [] s = "PlusOne" -> 13
      [] s = "PlusTwo" -> 14
      [] s = "PlusThree" -> 15
      [] s = "PlusFour" -> 16
      [] s = "PlusFive" -> 17
      [] s = "PlusSix" -> 18
      [] s = "PlusSeven" -> 19
      [] s = "PlusEight" -> 20
      [] s = "PlusNine" -> 21
      [] s = "PlusTen" -> 22
      [] s = "PlusEleven" -> 23
      [] s = "PlusTwelve" -> 24

LfoIndex == {"One", "Two", "Three", "Four", "Five"}

LfoIndex_as_byte(i) ==
    CASE i = "One" -> 0
      [] i = "Two" -> 1
      [] i = "Three" -> 2
      [] i = "Four" -> 3
      [] i = "Five" -> 4

LfoShape == {"Sine", "Triangle", "FallingSaw", "Square", "RisingSaw"}

LfoShape_as_byte(s) ==
    CASE s = "Sine" -> 0
      [] s = "Triangle" -> 1
      [] s = "FallingSaw" -> 2
      [] s = "Square" -> 3
      [] s = "RisingSaw" -> 4

LfoPhaseOffset ==
    {"Zero", "FourtyFive", "Ninety", "HundredThirtyFive", "HundredEighty",
     "TwoHundredTwentyFive", "TwoHundredSeventy", "ThreeHundredFifteen"}

LfoPhaseOffset_as_byte(o) ==
    CASE o = "Zero" -> 0
      [] o = "FourtyFive" -> 1
      [] o = "Ninety" -> 2
      [] o = "HundredThirtyFive" -> 3
      [] o = "HundredEighty" -> 4
      [] o = "TwoHundredTwentyFive" -> 5
      [] o = "TwoHundredSeventy" -> 6
      [] o = "ThreeHundredFifteen" -> 7

ModSource == {"Off", "AfterTouch", "ModWheel", "Velocity"}

ModSource_as_byte(m) ==
    CASE m = "Off" -> 0
      [] m = "AfterTouch" -> 1
      [] m = "ModWheel" -> 2
      [] m = "Velocity" -> 3

AssignOutOption == {"Osc1", "Osc2", "Velocity", "ModWheel", "AfterTouch"}

AssignOutOption_as_byte(o) ==
    CASE o = "Osc1" -> 0
      [] o = "Osc2" -> 1
      [] o = "Velocity" -> 2
      [] o = "ModWheel" -> 3
      [] o = "AfterTouch" -> 4

\* RetriggerMode is used by parser.rs and app.rs; its definition is not in
\* the protocol.rs at hand.
RetriggerMode == {"Staccato", "Legato"}

RetriggerMode_as_byte(m) ==
    CASE m = "Staccato" -> 0
      [] m = "Legato" -> 1

\* the Channel enum, in declaration order: ChannelOrder[n] is channel n
ChannelOrder ==
    <<"One", "Two", "Three", "Four", "Five", "Six", "Seven", "Eight", "Nine",
      "Ten", "Eleven", "Twelve", "Thirteen", "Fourteen", "Fifteen", "Sixteen">>

Channel == {ChannelOrder[n] : n \in 1..Len(ChannelOrder)}

Channel_as_byte(c) ==
    CASE c = "One" -> 0
      [] c = "Two" -> 1
      [] c = "Three" -> 2
      [] c = "Four" -> 3
      [] c = "Five" -> 4
      [] c = "Six" -> 5
      [] c = "Seven" -> 6
      [] c = "Eight" -> 7
      [] c = "Nine" -> 8
      [] c = "Ten" -> 9
      [] c = "Eleven" -> 10
      [] c = "Twelve" -> 11
      [] c = "Thirteen" -> 12
      [] c = "Fourteen" -> 13
      [] c = "Fifteen" -> 13
      [] c = "Sixteen" -> 15

\* DeviceId::Channel(c) is <<"Channel", c>>, DeviceId::Multicast is <<"Multicast">>
DeviceId == {<<"Channel", c>> : c \in Channel} \cup {<<"Multicast">>}

\* faulty variant of DeviceId::as_byte: the multicast address has its top
\* bit set
DeviceId_as_byte_status(id) ==
    CASE id[1] = "Channel" -> Channel_as_byte(id[2])
      [] id[1] = "Multicast" -> 255

DeviceId_as_byte(id) ==
    CASE id[1] = "Channel" -> Channel_as_byte(id[2])
      [] id[1] = "Multicast" -> 127

(***************************************************************************)
(* protocol.rs: Percent.  from_percentage computes in f32; an f32 is       *)
(* modelled as [m, e], the value m / 2^e with a 24-bit significand m, and  *)
(* every f32 operation rounds to nearest, ties to even.                    *)
(***************************************************************************)
RECURSIVE Pow2(_)
Pow2(n) == IF n = 0 THEN 1 ELSE 2 * Pow2(n - 1)

\* n / d rounded to the nearest integer, ties to the even one
RoundHalfEven(n, d) ==
    LET q == n \div d
        r == n % d
    IN  IF 2 * r > d \/ (2 * r = d /\ q % 2 = 1) THEN q + 1 ELSE q

\* the least e >= from with n * 2^e >= d * 2^23
RECURSIVE f32_scale(_, _, _)
f32_scale(n, d, from) ==
    IF n * Pow2(from) >= d * Pow2(23) THEN from ELSE f32_scale(n, d, from + 1)

\* (n as f32) / (d as f32), for integers n, d that an f32 holds exactly
f32_div(n, d) ==
    IF n = 0
    THEN [m |-> 0, e |-> 0]
    ELSE LET e == f32_scale(n, d, 0)
         IN  [m |-> RoundHalfEven(n * Pow2(e), d), e |-> e]

\* the least s >= from with p < 2^24 * 2^s
RECURSIVE f32_excess(_, _)
f32_excess(p, from) ==
    IF p < Pow2(24) * Pow2(from) THEN from ELSE f32_excess(p, from + 1)

\* a * (k as f32), for a small integer k
f32_mul(a, k) ==
    LET p == a.m * k
        s == f32_excess(p, 0)
    IN  [m |-> RoundHalfEven(p, Pow2(s)), e |-> a.e - s]

\* `as u8`: truncation toward zero, saturating at u8::MAX
f32_as_u8(a) ==
    IF a.e >= 0 THEN Min(a.m \div Pow2(a.e), 255) ELSE 255

PERCENT_MAX_BYTE == 63

\* faulty variant of from_byte: the cap is forgotten
from_byte_uncapped(value) == [value |-> value]

\* Percent::from_byte
from_byte(value) == [value |-> Min(value, PERCENT_MAX_BYTE)]

\* faulty variant of from_percentage: the input is not capped at 100
from_percentage_uncapped(value) ==
    [value |-> f32_as_u8(f32_mul(f32_div(value, 100), 63))]

\* Percent::from_percentage
from_percentage(value) ==
    [value |-> f32_as_u8(f32_mul(f32_div(Min(value, 100), 100), 63))]

\* Percent::as_byte
Percent_as_byte(p) == p.value

(***************************************************************************)
(* protocol.rs: GlobalSetting and ByteBuilder::append_to                   *)
(***************************************************************************)
\* faulty variant of append_to: OscSync is written with the opcode of
\* ParaphonicMode
append_to_shared_opcode(gs, buffer) ==
    CASE gs[1] = "ParaphonicMode" -> push(push(buffer, 15), ToggleOption_as_byte(gs[2]))
      [] gs[1] = "OscSync" -> push(push(buffer, 15), ToggleOption_as_byte(gs[2]))
      [] gs[1] = "Osc1BlendMode" -> push(push(buffer, 32), BlendMode_as_byte(gs[2]))
      [] gs[1] = "Osc2BlendMode" -> push(push(buffer, 33), BlendMode_as_byte(gs[2]))
      [] gs[1] = "Osc1TunePotBypass" -> push(push(buffer, 34), ToggleOption_as_byte(gs[2]))
      [] gs[1] = "Osc2TunePotBypass" -> push(push(buffer, 35), ToggleOption_as_byte(gs[2]))
      [] gs[1] = "Osc1Range" -> push(push(buffer, 38), OscRange_as_byte(gs[2]))
      [] gs[1] = "Osc2Range" -> push(push(buffer, 39), OscRange_as_byte(gs[2]))
      [] gs[1] = "Osc2KeyTrack" -> push(push(buffer, 42), KeyTrackMode_as_byte(gs[2]))
      [] gs[1] = "LfoBlendMode" -> push(push(buffer, 48), BlendMode_as_byte(gs[2]))
      [] gs[1] = "LfoKeySync" -> push(push(buffer, 55), ToggleOption_as_byte(gs[2]))
      [] gs[1] = "LfoOneShot" -> push(push(buffer, 49), ToggleOption_as_byte(gs[2]))
      [] gs[1] = "LfoRetrigger" -> push(push(buffer, 59), ToggleOption_as_byte(gs[2]))
      [] gs[1] = "LfoMidiSync" -> push(push(buffer, 53), ToggleOption_as_byte(gs[2]))
      [] gs[1] = "LfoResetOrder" -> push(push(buffer, 57), 0)
      [] gs[1] = "VcfKeyTracking" -> push(push(buffer, 17), ToggleOption_as_byte(gs[2]))
      [] gs[1] = "MidiChannel" -> push(push(buffer, 0), Channel_as_byte(gs[2]))
      [] gs[1] = "DisableMidiDips" -> push(push(buffer, 10), ToggleOption_as_byte(gs[2]))
      [] gs[1] = "PolyChainMode" -> push(push(buffer, 8), ToggleOption_as_byte(gs[2]))
      [] gs[1] = "KeyRangeMute" -> push(push(buffer, 11), ToggleOption_as_byte(gs[2]))
      [] gs[1] = "KeyRangeReset" -> push(push(buffer, 6), 0)
      [] gs[1] = "LfoDepth" -> push(push(buffer, 52), Percent_as_byte(gs[2]))
      [] gs[1] = "VcfModDepth" -> push(push(buffer, 20), Percent_as_byte(gs[2]))
      [] gs[1] = "LfoShapeOrder" ->
            push(push(push(buffer, 56), LfoIndex_as_byte(gs[2])), LfoShape_as_byte(gs[3]))
      [] gs[1] = "Osc1Autoglide" -> push(push(buffer, 36), AutoglideSemitones_as_byte(gs[2]))
      [] gs[1] = "Osc2Autoglide" -> push(push(buffer, 37), AutoglideSemitones_as_byte(gs[2]))
      [] gs[1] = "LfoShapePhase" ->
            push(push(push(buffer, 58), LfoIndex_as_byte(gs[2])), LfoPhaseOffset_as_byte(gs[3]))
      [] gs[1] = "VcfModSource" -> push(push(buffer, 18), ModSource_as_byte(gs[2]))
      [] gs[1] = "AssignOut" -> push(push(buffer, 4), AssignOutOption_as_byte(gs[2]))

\* faulty variant of append_to: LfoRetrigger is written as 0x3c, not 0x3b
append_to_opcode_slip(gs, buffer) ==
    CASE gs[1] = "ParaphonicMode" -> push(push(buffer, 15), ToggleOption_as_byte(gs[2]))
      [] gs[1] = "OscSync" -> push(push(buffer, 14), ToggleOption_as_byte(gs[2]))
      [] gs[1] = "Osc1BlendMode" -> push(push(buffer, 32), BlendMode_as_byte(gs[2]))
      [] gs[1] = "Osc2BlendMode" -> push(push(buffer, 33), BlendMode_as_byte(gs[2]))
      [] gs[1] = "Osc1TunePotBypass" -> push(push(buffer, 34), ToggleOption_as_byte(gs[2]))
      [] gs[1] = "Osc2TunePotBypass" -> push(push(buffer, 35), ToggleOption_as_byte(gs[2]))
      [] gs[1] = "Osc1Range" -> push(push(buffer, 38), OscRange_as_byte(gs[2]))
      [] gs[1] = "Osc2Range" -> push(push(buffer, 39), OscRange_as_byte(gs[2]))
      [] gs[1] = "Osc2KeyTrack" -> push(push(buffer, 42), KeyTrackMode_as_byte(gs[2]))
      [] gs[1] = "LfoBlendMode" -> push(push(buffer, 48), BlendMode_as_byte(gs[2]))
      [] gs[1] = "LfoKeySync" -> push(push(buffer, 55), ToggleOption_as_byte(gs[2]))
      [] gs[1] = "LfoOneShot" -> push(push(buffer, 49), ToggleOption_as_byte(gs[2]))
      [] gs[1] = "LfoRetrigger" -> push(push(buffer, 60), ToggleOption_as_byte(gs[2]))
      [] gs[1] = "LfoMidiSync" -> push(push(buffer, 53), ToggleOption_as_byte(gs[2]))
      [] gs[1] = "LfoResetOrder" -> push(push(buffer, 57), 0)
      [] gs[1] = "VcfKeyTracking" -> push(push(buffer, 17), ToggleOption_as_byte(gs[2]))
      [] gs[1] = "MidiChannel" -> push(push(buffer, 0), Channel_as_byte(gs[2]))
      [] gs[1] = "DisableMidiDips" -> push(push(buffer, 10), ToggleOption_as_byte(gs[2]))
      [] gs[1] = "PolyChainMode" -> push(push(buffer, 8), ToggleOption_as_byte(gs[2]))
      [] gs[1] = "KeyRangeMute" -> push(push(buffer, 11), ToggleOption_as_byte(gs[2]))
      [] gs[1] = "KeyRangeReset" -> push(push(buffer, 6), 0)
      [] gs[1] = "LfoDepth" -> push(push(buffer, 52), Percent_as_byte(gs[2]))
      [] gs[1] = "VcfModDepth" -> push(push(buffer, 20), Percent_as_byte(gs[2]))
      [] gs[1] = "LfoShapeOrder" ->
            push(push(push(buffer, 56), LfoIndex_as_byte(gs[2])), LfoShape_as_byte(gs[3]))
      [] gs[1] = "Osc1Autoglide" -> push(push(buffer, 36), AutoglideSemitones_as_byte(gs[2]))
      [] gs[1] = "Osc2Autoglide" -> push(push(buffer, 37), AutoglideSemitones_as_byte(gs[2]))
      [] gs[1] = "LfoShapePhase" ->
            push(push(push(buffer, 58), LfoIndex_as_byte(gs[2])), LfoPhaseOffset_as_byte(gs[3]))
      [] gs[1] = "VcfModSource" -> push(push(buffer, 18), ModSource_as_byte(gs[2]))
      [] gs[1] = "AssignOut" -> push(push(buffer, 4), AssignOutOption_as_byte(gs[2]))

append_to(gs, buffer) ==
    CASE gs[1] = "ParaphonicMode" -> push(push(buffer, 15), ToggleOption_as_byte(gs[2]))
      [] gs[1] = "OscSync" -> push(push(buffer, 14), ToggleOption_as_byte(gs[2]))
      [] gs[1] = "Osc1BlendMode" -> push(push(buffer, 32), BlendMode_as_byte(gs[2]))
      [] gs[1] = "Osc2BlendMode" -> push(push(buffer, 33), BlendMode_as_byte(gs[2]))
      [] gs[1] = "Osc1TunePotBypass" -> push(push(buffer, 34), ToggleOption_as_byte(gs[2]))
      [] gs[1] = "Osc2TunePotBypass" -> push(push(buffer, 35), ToggleOption_as_byte(gs[2]))
      [] gs[1] = "Osc1Range" -> push(push(buffer, 38), OscRange_as_byte(gs[2]))
      [] gs[1] = "Osc2Range" -> push(push(buffer, 39), OscRange_as_byte(gs[2]))
      [] gs[1] = "Osc2KeyTrack" -> push(push(buffer, 42), KeyTrackMode_as_byte(gs[2]))
      [] gs[1] = "LfoBlendMode" -> push(push(buffer, 48), BlendMode_as_byte(gs[2]))
      [] gs[1] = "LfoKeySync" -> push(push(buffer, 55), ToggleOption_as_byte(gs[2]))
      [] gs[1] = "LfoOneShot" -> push(push(buffer, 49), ToggleOption_as_byte(gs[2]))
      [] gs[1] = "LfoRetrigger" -> push(push(buffer, 59), ToggleOption_as_byte(gs[2]))
      [] gs[1] = "LfoMidiSync" -> push(push(buffer, 53), ToggleOption_as_byte(gs[2]))
      [] gs[1] = "LfoResetOrder" -> push(push(buffer, 57), 0)
      [] gs[1] = "VcfKeyTracking" -> push(push(buffer, 17), ToggleOption_as_byte(gs[2]))
      [] gs[1] = "MidiChannel" -> push(push(buffer, 0), Channel_as_byte(gs[2]))
      [] gs[1] = "DisableMidiDips" -> push(push(buffer, 10), ToggleOption_as_byte(gs[2]))
      [] gs[1] = "PolyChainMode" -> push(push(buffer, 8), ToggleOption_as_byte(gs[2]))
      [] gs[1] = "KeyRangeMute" -> push(push(buffer, 11), ToggleOption_as_byte(gs[2]))
      [] gs[1] = "KeyRangeReset" -> push(push(buffer, 6), 0)
      [] gs[1] = "LfoDepth" -> push(push(buffer, 52), Percent_as_byte(gs[2]))
      [] gs[1] = "VcfModDepth" -> push(push(buffer, 20), Percent_as_byte(gs[2]))
      [] gs[1] = "LfoShapeOrder" ->
            push(push(push(buffer, 56), LfoIndex_as_byte(gs[2])), LfoShape_as_byte(gs[3]))
      [] gs[1] = "Osc1Autoglide" -> push(push(buffer, 36), AutoglideSemitones_as_byte(gs[2]))
      [] gs[1] = "Osc2Autoglide" -> push(push(buffer, 37), AutoglideSemitones_as_byte(gs[2]))
      [] gs[1] = "LfoShapePhase" ->
            push(push(push(buffer, 58), LfoIndex_as_byte(gs[2])), LfoPhaseOffset_as_byte(gs[3]))
      [] gs[1] = "VcfModSource" -> push(push(buffer, 18), ModSource_as_byte(gs[2]))
      [] gs[1] = "AssignOut" -> push(push(buffer, 4), AssignOutOption_as_byte(gs[2]))

\* the append_to arm of GlobalSetting::EnvRetriggerMode (opcode 0x05, as
\* env_retrigger_staccato / env_retrigger_legato write it)
EnvRetriggerMode_append_to(gs, buffer) ==
    push(push(buffer, 5), RetriggerMode_as_byte(gs[2]))

\* c.append_to(&mut bytes) for any GlobalSetting c
ByteBuilder_append_to(gs, buffer) ==
    IF gs[1] = "EnvRetriggerMode"
    THEN EnvRetriggerMode_append_to(gs, buffer)
    ELSE append_to(gs, buffer)

\* parser.rs test helper: the bytes of one GlobalSetting
to_vec(gs) == ByteBuilder_append_to(gs, <<>>)

(***************************************************************************)
(* String: v.as_bytes() is the UTF-8 encoding of the string's scalars and  *)
(* String::from_utf8_lossy decodes it, replacing every maximal invalid     *)
(* part by U+FFFD.                                                         *)
(***************************************************************************)
utf8_encode(c) ==
    IF c < 128 THEN <<c>>
    ELSE IF c < 2048 THEN <<192 + (c \div 64), 128 + (c % 64)>>
    ELSE IF c < 65536
         THEN <<224 + (c \div 4096), 128 + ((c \div 64) % 64), 128 + (c % 64)>>
    ELSE <<240 + (c \div 262144), 128 + ((c \div 4096) % 64),
           128 + ((c \div 64) % 64), 128 + (c % 64)>>

RECURSIVE String_as_bytes(_)
String_as_bytes(v) ==
    IF v = <<>> THEN <<>> ELSE utf8_encode(Head(v)) \o String_as_bytes(Tail(v))

utf8_char_width(b) ==
    IF b < 128 THEN 1
    ELSE IF b \in 194..223 THEN 2
    ELSE IF b \in 224..239 THEN 3
    ELSE IF b \in 240..244 THEN 4
    ELSE 0

\* the second byte of a 3- or 4-byte sequence, as the lossy decoder admits it
utf8_second_ok(first, second) ==
    \/ first = 224 /\ second \in 160..191
    \/ first \in 225..236 /\ second \in 128..191
    \/ first = 237 /\ second \in 128..159
    \/ first \in 238..239 /\ second \in 128..191
    \/ first = 240 /\ second \in 144..191
    \/ first \in 241..243 /\ second \in 128..191
    \/ first = 244 /\ second \in 128..143

\* the next chunk of v: [c |-> scalar, n |-> bytes consumed]
utf8_next(v) ==
    LET safe_get(i) == IF i <= Len(v) THEN v[i] ELSE 0
        cont(i) == safe_get(i) \in 128..191
        low(i) == safe_get(i) % 64
        w == utf8_char_width(v[1])
        bad(n) == [c |-> 65533, n |-> n]
    IN  CASE w = 1 -> [c |-> v[1], n |-> 1]
          [] w = 2 -> IF cont(2)
                      THEN [c |-> (v[1] - 192) * 64 + low(2), n |-> 2]
                      ELSE bad(1)
          [] w = 3 -> IF ~utf8_second_ok(v[1], safe_get(2)) THEN bad(1)
                      ELSE IF ~cont(3) THEN bad(2)
                      ELSE [c |-> (v[1] - 224) * 4096 + low(2) * 64 + low(3), n |-> 3]
          [] w = 4 -> IF ~utf8_second_ok(v[1], safe_get(2)) THEN bad(1)
                      ELSE IF ~cont(3) THEN bad(2)
                      ELSE IF ~cont(4) THEN bad(3)
                      ELSE [c |-> (v[1] - 240) * 262144 + low(2) * 4096
                                    + low(3) * 64 + low(4),
                            n |-> 4]
          [] OTHER -> bad(1)

RECURSIVE from_utf8_lossy(_)
from_utf8_lossy(v) ==
    IF v = <<>> THEN <<>>
    ELSE LET chunk == utf8_next(v)
         IN  <<chunk.c>> \o from_utf8_lossy(SubSeq(v, chunk.n + 1, Len(v)))

(***************************************************************************)
(* protocol.rs: NeutronMessage::as_bytes.  A message is the tuple          *)
(* <<variant, DeviceId>>, <<variant, DeviceId, GlobalSetting>> or          *)
(* <<"SoftwareVersionResponse", DeviceId, String>>.                        *)
(***************************************************************************)
\* faulty variant of as_bytes: SetGlobalSetting also writes the version byte
as_bytes_versioned(self) ==
    LET b0 == push(extend_from_slice(push(<<>>, SYSEX_MESSAGE_START),
                                     BEHRINGER_MANUFACTURER),
                   NEUTRON_DEVICE)
        b1 == push(b0, DeviceId_as_byte(self[2]))
        b2 == CASE self[1] = "SetGlobalSetting" ->
                    ByteBuilder_append_to(self[3], push(push(b1, 10), COMMS_PROTOCOL_V1))
                [] self[1] = "RestoreGlobalSetting" -> push(b1, 11)
                [] self[1] = "CalibrationModeCommand" -> push(b1, 16)
                [] self[1] = "SoftwareVersionRequest" -> push(b1, 115)
                [] self[1] = "SoftwareVersionResponse" ->
                    extend_from_slice(push(push(b1, 116), COMMS_PROTOCOL_V1),
                                      String_as_bytes(self[3]))
                [] self[1] = "GlobalSettingUpdate" ->
                    ByteBuilder_append_to(self[3], push(push(b1, 90), COMMS_PROTOCOL_V1))
    IN  push(b2, SYSEX_EOX)

as_bytes(self) ==
    LET b0 == push(extend_from_slice(push(<<>>, SYSEX_MESSAGE_START),
                                     BEHRINGER_MANUFACTURER),
                   NEUTRON_DEVICE)
        b1 == push(b0, DeviceId_as_byte(self[2]))
        b2 == CASE self[1] = "SetGlobalSetting" ->
                    ByteBuilder_append_to(self[3], push(b1, 10))
                [] self[1] = "RestoreGlobalSetting" -> push(b1, 11)
                [] self[1] = "CalibrationModeCommand" -> push(b1, 16)
                [] self[1] = "SoftwareVersionRequest" -> push(b1, 115)
                [] self[1] = "SoftwareVersionResponse" ->
                    extend_from_slice(push(push(b1, 116), COMMS_PROTOCOL_V1),
                                      String_as_bytes(self[3]))
                [] self[1] = "GlobalSettingUpdate" ->
                    ByteBuilder_append_to(self[3], push(push(b1, 90), COMMS_PROTOCOL_V1))
    IN  push(b2, SYSEX_EOX)

(***************************************************************************)
(* parser.rs: the nom combinators it uses.  A parser applied to its input  *)
(* gives an IResult: Ok(rest, val), Err::Error or Err::Failure.  The       *)
(* sequencing combinators take the result of their first parser and the    *)
(* parsers to run on what it left.                                         *)
(***************************************************************************)
Ok(rest, val) == [ok |-> TRUE, rest |-> rest, val |-> val]
Error == [ok |-> FALSE, err |-> "Error"]
Failure == [ok |-> FALSE, err |-> "Failure"]

\* faulty variant of tag: only the bytes that are there are compared
tag_lenient(t, input) ==
    LET n == IF Len(input) < Len(t) THEN Len(input) ELSE Len(t)
    IN  IF SubSeq(input, 1, n) = SubSeq(t, 1, n)
        THEN Ok(SubSeq(input, n + 1, Len(input)), SubSeq(input, 1, n))
        ELSE Error

\* bytes::complete::tag
tag(t, input) ==
    IF Len(input) >= Len(t) /\ SubSeq(input, 1, Len(t)) = t
    THEN Ok(SubSeq(input, Len(t) + 1, Len(input)), t)
    ELSE Error

\* bytes::complete::take
take(count, input) ==
    IF Len(input) >= count
    THEN Ok(SubSeq(input, count + 1, Len(input)), SubSeq(input, 1, count))
    ELSE Error

\* faulty variant of is_not: an empty prefix is a match too
is_not_or_empty(arr, input) ==
    LET stops == {i \in 1..Len(input) : input[i] \in arr}
        n == IF stops = {}
             THEN Len(input)
             ELSE (CHOOSE i \in stops : \A j \in stops : i <= j) - 1
    IN  Ok(SubSeq(input, n + 1, Len(input)), SubSeq(input, 1, n))

\* bytes::complete::is_not: the longest non-empty prefix without a byte of arr
is_not(arr, input) ==
    LET stops == {i \in 1..Len(input) : input[i] \in arr}
        n == IF stops = {}
             THEN Len(input)
             ELSE (CHOOSE i \in stops : \A j \in stops : i <= j) - 1
    IN  IF n = 0
        THEN Error
        ELSE Ok(SubSeq(input, n + 1, Len(input)), SubSeq(input, 1, n))

\* combinator::map
map(r, f(_)) == IF r.ok THEN Ok(r.rest, f(r.val)) ELSE r

\* combinator::cut: an Error becomes a Failure
cut(r) == IF r.ok THEN r ELSE Failure

\* branch::alt: the first result that is not an Error
alt(rs) ==
    LET decided == {i \in 1..Len(rs) : rs[i].ok \/ rs[i].err = "Failure"}
    IN  IF decided = {}
        THEN Error
        ELSE rs[CHOOSE i \in decided : \A j \in decided : i <= j]

\* sequence::preceded
preceded(r1, second(_)) == IF r1.ok THEN second(r1.rest) ELSE r1

\* sequence::pair
pair(r1, second(_)) ==
    IF ~r1.ok THEN r1
    ELSE LET r2 == second(r1.rest)
         IN  IF r2.ok THEN Ok(r2.rest, <<r1.val, r2.val>>) ELSE r2

\* sequence::terminated
terminated(r1, second(_)) ==
    IF ~r1.ok THEN r1
    ELSE LET r2 == second(r1.rest)
         IN  IF r2.ok THEN Ok(r2.rest, r1.val) ELSE r2

\* sequence::separated_pair
separated_pair(r1, sep(_), second(_)) ==
    pair(terminated(r1, sep), second)

\* sequence::delimited
delimited(r1, second(_), third(_)) ==
    terminated(preceded(r1, second), third)

(***************************************************************************)
(* parser.rs: the value parsers                                            *)
(***************************************************************************)
toggle_option(input) ==
    alt(<<map(tag(<<1>>, input), LAMBDA x : "On"),
          map(tag(<<0>>, input), LAMBDA x : "Off")>>)

take1(input) == take(1, input)

\* faulty variant of percent: the byte is read as a percentage, not a level
percent_as_percentage(input) == map(take1(input), LAMBDA p : from_percentage(p[1]))

percent(input) == map(take1(input), LAMBDA p : from_byte(p[1]))

blend_mode(input) ==
    alt(<<map(tag(<<1>>, input), LAMBDA x : "Switch"),
          map(tag(<<0>>, input), LAMBDA x : "Blend")>>)

retrigger_mode(input) ==
    alt(<<map(tag(<<1>>, input), LAMBDA x : "Legato"),
          map(tag(<<0>>, input), LAMBDA x : "Staccato")>>)

osc_range(input) ==
    alt(<<map(tag(<<0>>, input), LAMBDA x : "ThirtyTwo"),
          map(tag(<<1>>, input), LAMBDA x : "Sixteen"),
          map(tag(<<2>>, input), LAMBDA x : "Eight"),
          map(tag(<<3>>, input), LAMBDA x : "PlusMinusTen")>>)

autoglide_semitones(input) ==
    alt(<<
        alt(<<map(tag(<<0>>, input), LAMBDA x : "MinusTwelve"),
              map(tag(<<1>>, input), LAMBDA x : "MinusEleven"),
              map(tag(<<2>>, input), LAMBDA x : "MinusTen"),
              map(tag(<<3>>, input), LAMBDA x : "MinusNine"),
              map(tag(<<4>>, input), LAMBDA x : "MinusEight"),
              map(tag(<<5>>, input), LAMBDA x : "MinusSeven"),
              map(tag(<<6>>, input), LAMBDA x : "MinusSix"),
              map(tag(<<7>>, input), LAMBDA x : "MinusFive"),
              map(tag(<<8>>, input), LAMBDA x : "MinusFour"),
              map(tag(<<9>>, input), LAMBDA x : "MinusThree"),
              map(tag(<<10>>, input), LAMBDA x : "MinusTwo"),
              map(tag(<<11>>, input), LAMBDA x : "MinusOne")>>),
        alt(<<map(tag(<<12>>, input), LAMBDA x : "Zero"),
              map(tag(<<13>>, input), LAMBDA x : "PlusOne"),
              map(tag(<<14>>, input), LAMBDA x : "PlusTwo"),
              map(tag(<<15>>, input), LAMBDA x : "PlusThree"),
              map(tag(<<16>>, input), LAMBDA x : "PlusFour"),
              map(tag(<<17>>, input), LAMBDA x : "PlusFive"),
              map(tag(<<18>>, input), LAMBDA x : "PlusSix"),
              map(tag(<<19>>, input), LAMBDA x : "PlusSeven"),
              map(tag(<<20>>, input), LAMBDA x : "PlusEight"),
              map(tag(<<21>>, input), LAMBDA x : "PlusNine"),
              map(tag(<<22>>, input), LAMBDA x : "PlusTen"),
              map(tag(<<23>>, input), LAMBDA x : "PlusEleven"),
              map(tag(<<24>>, input), LAMBDA x : "PlusTwelve")>>)>>)

key_track_mode(input) ==
    alt(<<map(tag(<<1>>, input), LAMBDA x : "Hold"),
          map(tag(<<0>>, input), LAMBDA x : "Track")>>)

\* faulty variant of lfo_index: the index byte is read one-based
lfo_index_one_based(input) ==
    alt(<<map(tag(<<1>>, input), LAMBDA x : "One"),
          map(tag(<<2>>, input), LAMBDA x : "Two"),
          map(tag(<<3>>, input), LAMBDA x : "Three"),
          map(tag(<<4>>, input), LAMBDA x : "Four"),
          map(tag(<<5>>, input), LAMBDA x : "Five")>>)

lfo_index(input) ==
    alt(<<map(tag(<<0>>, input), LAMBDA x : "One"),
          map(tag(<<1>>, input), LAMBDA x : "Two"),
          map(tag(<<2>>, input), LAMBDA x : "Three"),
          map(tag(<<3>>, input), LAMBDA x : "Four"),
          map(tag(<<4>>, input), LAMBDA x : "Five")>>)

lfo_shape(input) ==
    alt(<<map(tag(<<0>>, input), LAMBDA x : "Sine"),
          map(tag(<<1>>, input), LAMBDA x : "Triangle"),
          map(tag(<<2>>, input), LAMBDA x : "FallingSaw"),
          map(tag(<<3>>, input), LAMBDA x : "Square"),
          map(tag(<<4>>, input), LAMBDA x : "RisingSaw")>>)

lfo_phase_offset(input) ==
    alt(<<map(tag(<<0>>, input), LAMBDA x : "Zero"),
          map(tag(<<1>>, input), LAMBDA x : "FourtyFive"),
          map(tag(<<2>>, input), LAMBDA x : "Ninety"),
          map(tag(<<3>>, input), LAMBDA x : "HundredThirtyFive"),
          map(tag(<<4>>, input), LAMBDA x : "HundredEighty"),
          map(tag(<<5>>, input), LAMBDA x : "TwoHundredTwentyFive"),
          map(tag(<<6>>, input), LAMBDA x : "TwoHundredSeventy"),
          map(tag(<<7>>, input), LAMBDA x : "ThreeHundredFifteen")>>)

mod_source(input) ==
    alt(<<map(tag(<<0>>, input), LAMBDA x : "Off"),
          map(tag(<<1>>, input), LAMBDA x : "AfterTouch"),
          map(tag(<<2>>, input), LAMBDA x : "ModWheel"),
          map(tag(<<3>>, input), LAMBDA x : "Velocity")>>)

assign_out_option(input) ==
    alt(<<map(tag(<<0>>, input), LAMBDA x : "Osc1"),
          map(tag(<<1>>, input), LAMBDA x : "Osc2"),
          map(tag(<<2>>, input), LAMBDA x : "Velocity"),
          map(tag(<<3>>, input), LAMBDA x : "ModWheel"),
          map(tag(<<4>>, input), LAMBDA x : "AfterTouch")>>)

channel(input) ==
    cut(alt(<<map(tag(<<0>>, input), LAMBDA x : "One"),
              map(tag(<<1>>, input), LAMBDA x : "Two"),
              map(tag(<<2>>, input), LAMBDA x : "Three"),
              map(tag(<<3>>, input), LAMBDA x : "Four"),
              map(tag(<<4>>, input), LAMBDA x : "Five"),
              map(tag(<<5>>, input), LAMBDA x : "Six"),
              map(tag(<<6>>, input), LAMBDA x : "Seven"),
              map(tag(<<7>>, input), LAMBDA x : "Eight"),
              map(tag(<<8>>, input), LAMBDA x : "Nine"),
              map(tag(<<9>>, input), LAMBDA x : "Ten"),
              map(tag(<<10>>, input), LAMBDA x : "Eleven"),
              map(tag(<<11>>, input), LAMBDA x : "Twelve"),
              map(tag(<<12>>, input), LAMBDA x : "Thirteen"),
              map(tag(<<13>>, input), LAMBDA x : "Fourteen"),
              map(tag(<<14>>, input), LAMBDA x : "Fifteen"),
              map(tag(<<15>>, input), LAMBDA x : "Sixteen")>>))

\* the parsers of the enumerated values, by name
ValueParsers ==
    {"toggle_option", "blend_mode", "retrigger_mode", "osc_range",
     "autoglide_semitones", "key_track_mode", "lfo_index", "lfo_shape",
     "lfo_phase_offset", "mod_source", "assign_out_option", "channel"}

value_parser(p, input) ==
    CASE p = "toggle_option" -> toggle_option(input)
      [] p = "blend_mode" -> blend_mode(input)
      [] p = "retrigger_mode" -> retrigger_mode(input)
      [] p = "osc_range" -> osc_range(input)
      [] p = "autoglide_semitones" -> autoglide_semitones(input)
      [] p = "key_track_mode" -> key_track_mode(input)
      [] p = "lfo_index" -> lfo_index(input)
      [] p = "lfo_shape" -> lfo_shape(input)
      [] p = "lfo_phase_offset" -> lfo_phase_offset(input)
      [] p = "mod_source" -> mod_source(input)
      [] p = "assign_out_option" -> assign_out_option(input)
      [] p = "channel" -> channel(input)

(***************************************************************************)
(* parser.rs: the catalogue, the device address and the message            *)
(***************************************************************************)
global_setting(input) ==
    alt(<<
        alt(<<map(preceded(tag(<<15>>, input), toggle_option), LAMBDA t : <<"ParaphonicMode", t>>),
              map(preceded(tag(<<14>>, input), toggle_option), LAMBDA t : <<"OscSync", t>>),
              map(preceded(tag(<<32>>, input), blend_mode), LAMBDA b : <<"Osc1BlendMode", b>>),
              map(preceded(tag(<<33>>, input), blend_mode), LAMBDA b : <<"Osc2BlendMode", b>>),
              map(preceded(tag(<<34>>, input), toggle_option), LAMBDA t : <<"Osc1TunePotBypass", t>>),
              map(preceded(tag(<<35>>, input), toggle_option), LAMBDA t : <<"Osc2TunePotBypass", t>>),
              map(preceded(tag(<<38>>, input), osc_range), LAMBDA r : <<"Osc1Range", r>>),
              map(preceded(tag(<<39>>, input), osc_range), LAMBDA r : <<"Osc2Range", r>>),
              map(preceded(tag(<<42>>, input), key_track_mode), LAMBDA k : <<"Osc2KeyTrack", k>>),
              map(preceded(tag(<<48>>, input), blend_mode), LAMBDA b : <<"LfoBlendMode", b>>),
              map(preceded(tag(<<55>>, input), toggle_option), LAMBDA t : <<"LfoKeySync", t>>),
              map(preceded(tag(<<49>>, input), toggle_option), LAMBDA t : <<"LfoOneShot", t>>),
              map(preceded(tag(<<59>>, input), toggle_option), LAMBDA t : <<"LfoRetrigger", t>>),
              map(preceded(tag(<<53>>, input), toggle_option), LAMBDA t : <<"LfoMidiSync", t>>),
              map(preceded(tag(<<52>>, input), percent), LAMBDA p : <<"LfoDepth", p>>),
              map(tag(<<57, 0>>, input), LAMBDA x : <<"LfoResetOrder">>),
              map(preceded(tag(<<17>>, input), toggle_option), LAMBDA t : <<"VcfKeyTracking", t>>),
              map(preceded(tag(<<20>>, input), percent), LAMBDA p : <<"VcfModDepth", p>>),
              map(preceded(tag(<<0>>, input), channel), LAMBDA c : <<"MidiChannel", c>>),
              map(preceded(tag(<<10>>, input), toggle_option), LAMBDA t : <<"DisableMidiDips", t>>),
              map(preceded(tag(<<8>>, input), toggle_option), LAMBDA t : <<"PolyChainMode", t>>)>>),
        alt(<<map(preceded(tag(<<36>>, input), autoglide_semitones), LAMBDA s : <<"Osc1Autoglide", s>>),
              map(preceded(tag(<<37>>, input), autoglide_semitones), LAMBDA s : <<"Osc2Autoglide", s>>),
              map(preceded(tag(<<11>>, input), toggle_option), LAMBDA t : <<"KeyRangeMute", t>>),
              map(tag(<<6, 0>>, input), LAMBDA x : <<"KeyRangeReset">>),
              map(preceded(tag(<<56>>, input), LAMBDA i : pair(lfo_index(i), lfo_shape)),
                  LAMBDA p : <<"LfoShapeOrder", p[1], p[2]>>),
              map(preceded(tag(<<58>>, input), LAMBDA i : pair(lfo_index(i), lfo_phase_offset)),
                  LAMBDA p : <<"LfoShapePhase", p[1], p[2]>>),
              map(preceded(tag(<<18>>, input), mod_source), LAMBDA m : <<"VcfModSource", m>>),
              map(preceded(tag(<<4>>, input), assign_out_option), LAMBDA o : <<"AssignOut", o>>),
              map(preceded(tag(<<5>>, input), retrigger_mode), LAMBDA m : <<"EnvRetriggerMode", m>>)>>)>>)

\* faulty variant of device_id: any other byte is taken for the broadcast
device_id_lenient(input) ==
    alt(<<map(tag(<<127>>, input), LAMBDA x : <<"Multicast">>),
          map(alt(<<tag(<<0>>, input), tag(<<1>>, input), tag(<<2>>, input),
                    tag(<<3>>, input), tag(<<4>>, input), tag(<<5>>, input),
                    tag(<<6>>, input), tag(<<7>>, input), tag(<<8>>, input),
                    tag(<<9>>, input), tag(<<10>>, input), tag(<<11>>, input),
                    tag(<<12>>, input), tag(<<13>>, input), tag(<<14>>, input),
                    tag(<<15>>, input)>>),
              LAMBDA x : <<"Channel", ChannelOrder[x[1] + 1]>>),
          map(take(1, input), LAMBDA x : <<"Multicast">>)>>)

device_id(input) ==
    alt(<<map(tag(<<127>>, input), LAMBDA x : <<"Multicast">>),
          map(channel(input), LAMBDA c : <<"Channel", c>>)>>)

version(input) == map(is_not({SYSEX_EOX}, input), from_utf8_lossy)

\* faulty variant of neutron_message: the kind byte as_bytes writes for
\* CalibrationModeCommand is taken for a message too
neutron_message_calibration(input) ==
    delimited(
        tag(NEUTRON_MESSAGE_HEADER, input),
        LAMBDA i :
            alt(<<map(separated_pair(device_id(i), LAMBDA j : tag(<<10>>, j), global_setting),
                      LAMBDA p : <<"SetGlobalSetting", p[1], p[2]>>),
                  map(terminated(device_id(i), LAMBDA j : tag(<<11>>, j)),
                      LAMBDA id : <<"RestoreGlobalSetting", id>>),
                  map(terminated(device_id(i), LAMBDA j : tag(<<16>>, j)),
                      LAMBDA id : <<"CalibrationModeCommand", id>>),
                  map(terminated(device_id(i), LAMBDA j : tag(<<115>>, j)),
                      LAMBDA id : <<"SoftwareVersionRequest", id>>),
                  map(separated_pair(device_id(i),
                                     LAMBDA j : tag(<<116, COMMS_PROTOCOL_V1>>, j),
                                     version),
                      LAMBDA p : <<"SoftwareVersionResponse", p[1], p[2]>>),
                  map(separated_pair(device_id(i),
                                     LAMBDA j : tag(<<90, COMMS_PROTOCOL_V1>>, j),
                                     global_setting),
                      LAMBDA p : <<"GlobalSettingUpdate", p[1], p[2]>>)>>),
        LAMBDA i : tag(<<SYSEX_EOX>>, i))

\* faulty variant of neutron_message: the terminator is not looked at
neutron_message_unterminated(input) ==
    preceded(
        tag(NEUTRON_MESSAGE_HEADER, input),
        LAMBDA i :
            alt(<<map(separated_pair(device_id(i), LAMBDA j : tag(<<10>>, j), global_setting),
                      LAMBDA p : <<"SetGlobalSetting", p[1], p[2]>>),
                  map(terminated(device_id(i), LAMBDA j : tag(<<11>>, j)),
                      LAMBDA id : <<"RestoreGlobalSetting", id>>),
                  map(terminated(device_id(i), LAMBDA j : tag(<<115>>, j)),
                      LAMBDA id : <<"SoftwareVersionRequest", id>>),
                  map(separated_pair(device_id(i),
                                     LAMBDA j : tag(<<116, COMMS_PROTOCOL_V1>>, j),
                                     version),
                      LAMBDA p : <<"SoftwareVersionResponse", p[1], p[2]>>),
                  map(separated_pair(device_id(i),
                                     LAMBDA j : tag(<<90, COMMS_PROTOCOL_V1>>, j),
                                     global_setting),
                      LAMBDA p : <<"GlobalSettingUpdate", p[1], p[2]>>)>>))

\* faulty variant of neutron_message: the byte after 0x5a is skipped, not
\* compared with COMMS_PROTOCOL_V1
neutron_message_any_version(input) ==
    delimited(
        tag(NEUTRON_MESSAGE_HEADER, input),
        LAMBDA i :
            alt(<<map(separated_pair(device_id(i), LAMBDA j : tag(<<10>>, j), global_setting),
                      LAMBDA p : <<"SetGlobalSetting", p[1], p[2]>>),
                  map(terminated(device_id(i), LAMBDA j : tag(<<11>>, j)),
                      LAMBDA id : <<"RestoreGlobalSetting", id>>),
                  map(terminated(device_id(i), LAMBDA j : tag(<<115>>, j)),
                      LAMBDA id : <<"SoftwareVersionRequest", id>>),
                  map(separated_pair(device_id(i),
                                     LAMBDA j : tag(<<116, COMMS_PROTOCOL_V1>>, j),
                                     version),
                      LAMBDA p : <<"SoftwareVersionResponse", p[1], p[2]>>),
                  map(separated_pair(device_id(i),
                                     LAMBDA j : preceded(tag(<<90>>, j), take1),
                                     global_setting),
                      LAMBDA p : <<"GlobalSettingUpdate", p[1], p[2]>>)>>),
        LAMBDA i : tag(<<SYSEX_EOX>>, i))

neutron_message(input) ==
    delimited(
        tag(NEUTRON_MESSAGE_HEADER, input),
        LAMBDA i :
            alt(<<map(separated_pair(device_id(i), LAMBDA j : tag(<<10>>, j), global_setting),
                      LAMBDA p : <<"SetGlobalSetting", p[1], p[2]>>),
                  map(terminated(device_id(i), LAMBDA j : tag(<<11>>, j)),
                      LAMBDA id : <<"RestoreGlobalSetting", id>>),
                  map(terminated(device_id(i), LAMBDA j : tag(<<115>>, j)),
                      LAMBDA id : <<"SoftwareVersionRequest", id>>),
                  map(separated_pair(device_id(i),
                                     LAMBDA j : tag(<<116, COMMS_PROTOCOL_V1>>, j),
                                     version),
                      LAMBDA p : <<"SoftwareVersionResponse", p[1], p[2]>>),
                  map(separated_pair(device_id(i),
                                     LAMBDA j : tag(<<90, COMMS_PROTOCOL_V1>>, j),
                                     global_setting),
                      LAMBDA p : <<"GlobalSettingUpdate", p[1], p[2]>>)>>),
        LAMBDA i : tag(<<SYSEX_EOX>>, i))

(***************************************************************************)
(* The values the public types can hold                                    *)
(***************************************************************************)
\* every Percent a caller can construct (the field is private)
Percent == {from_byte(v) : v \in Byte} \cup {from_percentage(v) : v \in Byte}

ToggleVariants ==
    {"ParaphonicMode", "OscSync", "Osc1TunePotBypass", "Osc2TunePotBypass",
     "LfoKeySync", "LfoOneShot", "LfoRetrigger", "LfoMidiSync",
     "VcfKeyTracking", "DisableMidiDips", "PolyChainMode", "KeyRangeMute"}

PercentVariants == {"LfoDepth", "VcfModDepth"}

\* the GlobalSetting enum of protocol.rs
GlobalSettingOfProtocol ==
    {<<n, t>> : n \in ToggleVariants, t \in ToggleOption}
    \cup {<<n, b>> : n \in {"Osc1BlendMode", "Osc2BlendMode", "LfoBlendMode"}, b \in BlendMode}
    \cup {<<n, r>> : n \in {"Osc1Range", "Osc2Range"}, r \in OscRange}
    \cup {<<"Osc2KeyTrack", k>> : k \in KeyTrackMode}
    \cup {<<n, a>> : n \in {"Osc1Autoglide", "Osc2Autoglide"}, a \in AutoglideSemitones}
    \cup {<<n, p>> : n \in PercentVariants, p \in Percent}
    \cup {<<"LfoShapeOrder", i, sh>> : i \in LfoIndex, sh \in LfoShape}
    \cup {<<"LfoShapePhase", i, o>> : i \in LfoIndex, o \in LfoPhaseOffset}
    \cup {<<"LfoResetOrder">>, <<"KeyRangeReset">>}
    \cup {<<"VcfModSource", m>> : m \in ModSource}
    \cup {<<"MidiChannel", c>> : c \in Channel}
    \cup {<<"AssignOut", o>> : o \in AssignOutOption}

\* with the variant parser.rs and app.rs also name
GlobalSetting ==
    GlobalSettingOfProtocol \cup {<<"EnvRetriggerMode", m>> : m \in RetriggerMode}

\* the characters the version strings are drawn from: '.', '1', '2', and
\* U+00E9, which takes two bytes
VersionChars == {46, 49, 50, 233}

RECURSIVE StringsUpTo(_)
StringsUpTo(n) ==
    IF n = 0 THEN {<<>>}
    ELSE LET shorter == StringsUpTo(n - 1)
         IN  shorter \cup {Append(v, c) : v \in shorter, c \in VersionChars}

\* "1.2.3" and "2.0.2"
VersionStrings ==
    StringsUpTo(MaxVersionLen) \cup {<<49, 46, 50, 46, 51>>, <<50, 46, 48, 46, 50>>}

NeutronMessage ==
    {<<"SetGlobalSetting", id, gs>> : id \in DeviceId, gs \in GlobalSetting}
    \cup {<<"RestoreGlobalSetting", id>> : id \in DeviceId}
    \cup {<<"CalibrationModeCommand", id>> : id \in DeviceId}
    \cup {<<"SoftwareVersionRequest", id>> : id \in DeviceId}
    \cup {<<"SoftwareVersionResponse", id, v>> : id \in DeviceId, v \in VersionStrings}
    \cup {<<"GlobalSettingUpdate", id, gs>> : id \in DeviceId, gs \in GlobalSetting}

(***************************************************************************)
(* The buffers the transport delivers: what follows the device address in  *)
(* each kind of message, after an arbitrary address byte; single bytes;    *)
(* catalogue entries with an arbitrary opcode; and the two percentage      *)
(* entries with an arbitrary payload byte.                                 *)
(***************************************************************************)
Tails ==
    {<<>>,
     <<10, 15, 1, SYSEX_EOX>>,
     <<11, SYSEX_EOX>>,
     <<115, SYSEX_EOX>>,
     <<116, 1, 49, 46, 50, SYSEX_EOX>>,
     <<90, 1, 15, 1, SYSEX_EOX>>}

\* one well-formed frame of each kind the decoder knows, and one that
\* carries a two-field entry
SampleFrames ==
    {NEUTRON_MESSAGE_HEADER \o <<127>> \o t : t \in Tails \ {<<>>}}
    \cup {NEUTRON_MESSAGE_HEADER \o <<0, 90, 1, 58, 4, 7, SYSEX_EOX>>}

\* the frame f with its i-th byte replaced by x / with the bytes xs put in
\* before its i-th byte
ReplaceAt(f, i, x) == [f EXCEPT ![i] = x]
InsertAt(f, i, xs) == SubSeq(f, 1, i - 1) \o xs \o SubSeq(f, i, Len(f))

\* a sample frame with one byte corrupted
CorruptedFrames ==
    UNION {{ReplaceAt(f, i, x) : i \in 1..Len(f), x \in Byte} : f \in SampleFrames}

ExtraBytes == {0, 1, 15, 127, SYSEX_MESSAGE_START, SYSEX_EOX, 255}

\* a sample frame with bytes put in front of it, after its kind byte or
\* before its terminator
PaddedFrames ==
    UNION {{InsertAt(f, i, <<x>>) : i \in {1, 8, Len(f)}, x \in Byte} : f \in SampleFrames}
    \cup UNION {{InsertAt(f, Len(f), <<x, y>>) : x \in ExtraBytes, y \in ExtraBytes}
                : f \in SampleFrames}

\* a frame cut short: every proper prefix of what as_bytes writes
Frames == {as_bytes(m) : m \in NeutronMessage}
LongestFrame == CHOOSE n \in {Len(f) : f \in Frames} : \A f \in Frames : Len(f) <= n
Truncate(f, n) == SubSeq(f, 1, IF n < Len(f) THEN n ELSE Len(f) - 1)
TruncatedFrames == {Truncate(f, n) : f \in Frames, n \in 0..(LongestFrame - 1)}

\* a sample frame followed by one byte, or by two, after its terminator
TrailedFrames ==
    {f \o <<x>> : f \in SampleFrames, x \in Byte}
    \cup {f \o <<x, y>> : f \in SampleFrames, x \in ExtraBytes, y \in ExtraBytes}

\* a two-field catalogue entry with index and value bytes in and out of
\* range, alone or followed by one more byte
TwoFieldBytes == 0..9 \cup {127, 255}
TwoFieldBuffers ==
    {<<o, a, b>> : o \in {56, 58}, a \in TwoFieldBytes, b \in TwoFieldBytes}
    \cup {<<o, a, b, 0>> : o \in {56, 58}, a \in 0..5, b \in 0..8}

\* a frame that carries a percentage entry with an arbitrary payload byte
PercentFrames ==
    {NEUTRON_MESSAGE_HEADER \o <<127, 10, o, v, SYSEX_EOX>> : o \in {52, 20}, v \in Byte}

ReceivedBuffers ==
    {<<b>> : b \in Byte}
    \cup {NEUTRON_MESSAGE_HEADER \o <<b>> \o t : b \in Byte, t \in Tails}
    \cup {<<o, v>> : o \in Byte, v \in {0, 1}}
    \cup {<<o, v>> : o \in {52, 20, 57, 6}, v \in Byte}
    \cup CorruptedFrames
    \cup PaddedFrames
    \cup TruncatedFrames
    \cup PercentFrames
    \cup TrailedFrames
    \cup TwoFieldBuffers

(***************************************************************************)
(* src/app.rs: the terminal application around the codec.  A String the    *)
(* application shows is a TLA+ string.                                     *)
(***************************************************************************)
\* hex::encode: two lowercase hexadecimal digits a byte
HexChars ==
    <<"0", "1", "2", "3", "4", "5", "6", "7", "8", "9", "a", "b", "c", "d", "e", "f">>

RECURSIVE hex_encode(_)
hex_encode(data) ==
    IF data = <<>> THEN ""
    ELSE HexChars[(Head(data) \div 16) + 1] \o HexChars[(Head(data) % 16) + 1]
         \o hex_encode(Tail(data))

\* derive(Debug) of a char inside a string: the digits and the dot are
\* written as they are
char_fmt(c) ==
    CASE c = 46 -> "."
      [] c \in 48..57 -> ToString(c - 48)

\* derive(Debug) of a String: the characters between double quotes
RECURSIVE chars_fmt(_)
chars_fmt(v) == IF v = <<>> THEN "" ELSE char_fmt(Head(v)) \o chars_fmt(Tail(v))

String_fmt(v) == "\"" \o chars_fmt(v) \o "\""

\* derive(Debug) of Percent, DeviceId and GlobalSetting
Percent_fmt(p) == "Percent { value: " \o ToString(p.value) \o " }"

DeviceId_fmt(id) ==
    CASE id[1] = "Channel" -> "Channel(" \o id[2] \o ")"
      [] id[1] = "Multicast" -> "Multicast"

GlobalSetting_fmt(gs) ==
    IF Len(gs) = 1 THEN gs[1]
    ELSE IF gs[1] \in {"LfoDepth", "VcfModDepth"}
         THEN gs[1] \o "(" \o Percent_fmt(gs[2]) \o ")"
    ELSE IF Len(gs) = 2 THEN gs[1] \o "(" \o gs[2] \o ")"
    ELSE gs[1] \o "(" \o gs[2] \o ", " \o gs[3] \o ")"

\* Display for NeutronMessage is its Debug
NeutronMessage_to_string(m) ==
    CASE m[1] \in {"SetGlobalSetting", "GlobalSettingUpdate"} ->
            m[1] \o "(" \o DeviceId_fmt(m[2]) \o ", " \o GlobalSetting_fmt(m[3]) \o ")"
      [] m[1] \in {"RestoreGlobalSetting", "CalibrationModeCommand",
                   "SoftwareVersionRequest"} ->
            m[1] \o "(" \o DeviceId_fmt(m[2]) \o ")"
      [] m[1] = "SoftwareVersionResponse" ->
            m[1] \o "(" \o DeviceId_fmt(m[2]) \o ", " \o String_fmt(m[3]) \o ")"

\* protocol::maybe_request_state
maybe_request_state ==
    <<SYSEX_MESSAGE_START, BEHRINGER_MANUFACTURER[1], BEHRINGER_MANUFACTURER[2],
      BEHRINGER_MANUFACTURER[3], MAYBE_STATIC[1], MAYBE_STATIC[2], 5, SYSEX_EOX>>

\* faulty variant of the conversion of a ToggleOption to bool: the sense is
\* inverted
ToggleOption_into_bool_inverted(t) == t = "Off"

\* the conversion of a ToggleOption to bool
ToggleOption_into_bool(t) == t = "On"

\* NeutronState::new
NeutronState_new ==
    [global_settings |-> [device_id |-> 0, paraphonic_mode |-> FALSE, osc_sync |-> FALSE]]

\* NeutronState::global_setting_update
global_setting_update(self, gs) ==
    IF gs[1] = "ParaphonicMode"
    THEN [self EXCEPT !.global_settings.paraphonic_mode = ToggleOption_into_bool(gs[2])]
    ELSE self

\* NeutronState::update
update(self, message) ==
    CASE message[1] = "SetGlobalSetting" -> global_setting_update(self, message[3])
      [] message[1] = "GlobalSettingUpdate" -> global_setting_update(self, message[3])
      [] message[1] = "RestoreGlobalSetting" -> self
      [] message[1] = "CalibrationModeCommand" -> self
      [] message[1] = "SoftwareVersionRequest" -> self
      [] message[1] = "SoftwareVersionResponse" -> self

\* ListState::new
ListState_new(items) == [items |-> items, selection |-> 0]

\* faulty variant of ListState::select_next: the cursor stops one past the
\* last item before it wraps
select_next_late_wrap(self) ==
    [self EXCEPT !.selection = (self.selection + 1) % (Len(self.items) + 1)]

\* ListState::select_next
select_next(self) ==
    [self EXCEPT !.selection = (self.selection + 1) % Len(self.items)]

\* ListState::select_previous
select_previous(self) ==
    IF self.selection = 0
    THEN [self EXCEPT !.selection = Len(self.items) - 1]
    ELSE [self EXCEPT !.selection = self.selection - 1]

\* TabsState::new and TabsState::next
TabsState_new(titles) == [titles |-> titles, index |-> 0]
TabsState_next(self) == [self EXCEPT !.index = (self.index + 1) % Len(self.titles)]

MENU_MAPPINGS ==
    << <<"Paraphonic mode On", <<"ParaphonicMode", "On">>>>,
       <<"Paraphonic mode Off", <<"ParaphonicMode", "Off">>>>,
       <<"OSC Sync On", <<"OscSync", "On">>>>,
       <<"OSC Sync Off", <<"OscSync", "Off">>>>,
       <<"OSC 1 blend mode Switch", <<"Osc1BlendMode", "Switch">>>>,
       <<"OSC 1 blend mode Blend", <<"Osc1BlendMode", "Blend">>>>,
       <<"OSC 1 tune pot Bypass", <<"Osc1TunePotBypass", "On">>>>,
       <<"OSC 1 tune pot Enable", <<"Osc1TunePotBypass", "Off">>>>,
       <<"OSC 1 range 32", <<"Osc1Range", "ThirtyTwo">>>>,
       <<"OSC 1 range 16", <<"Osc1Range", "Sixteen">>>>,
       <<"OSC 1 range 8", <<"Osc1Range", "Eight">>>>,
       <<"OSC 1 range +/- 10 Oct", <<"Osc1Range", "PlusMinusTen">>>>,
       <<"OSC 2 blend mode Switch", <<"Osc2BlendMode", "Switch">>>>,
       <<"OSC 2 blend mode Blend", <<"Osc2BlendMode", "Blend">>>>,
       <<"OSC 2 tune pot Bypass", <<"Osc2TunePotBypass", "On">>>>,
       <<"OSC 2 tune pot Enable", <<"Osc2TunePotBypass", "Off">>>>,
       <<"OSC 2 range 32", <<"Osc2Range", "ThirtyTwo">>>>,
       <<"OSC 2 range 16", <<"Osc2Range", "Sixteen">>>>,
       <<"OSC 2 range 8", <<"Osc2Range", "Eight">>>>,
       <<"OSC 2 range +/- 10 Oct", <<"Osc2Range", "PlusMinusTen">>>>,
       <<"OSC 2 key track Hold", <<"Osc2KeyTrack", "Hold">>>>,
       <<"OSC 2 key track Track", <<"Osc2KeyTrack", "Track">>>>,
       <<"LFO blend mode Switch", <<"LfoBlendMode", "Switch">>>>,
       <<"LFO blend mode Blend", <<"LfoBlendMode", "Blend">>>>,
       <<"LFO key sync On", <<"LfoKeySync", "On">>>>,
       <<"LFO key sync Off", <<"LfoKeySync", "Off">>>>,
       <<"LFO one-shot On", <<"LfoOneShot", "On">>>>,
       <<"LFO one-shot Off", <<"LfoOneShot", "Off">>>>,
       <<"LFO retrigger On", <<"LfoRetrigger", "On">>>>,
       <<"LFO retrigger Off", <<"LfoRetrigger", "Off">>>>,
       <<"LFO midi sync On", <<"LfoMidiSync", "On">>>>,
       <<"LFO midi sync Off", <<"LfoMidiSync", "Off">>>>,
       <<"LFO reset order", <<"LfoResetOrder">>>>,
       <<"VCF key tracking On", <<"VcfKeyTracking", "On">>>>,
       <<"VCF key tracking Off", <<"VcfKeyTracking", "Off">>>> >>

\* the names of the menu entries, as App::new collects them
MenuNames == [i \in 1..Len(MENU_MAPPINGS) |-> MENU_MAPPINGS[i][1]]

\* ApplicationLogger::write: the line the logger puts into its channel for
\* a record of the given level and text
log_line(level, args) == level \o ":rustron::app -- " \o args

(***************************************************************************)
(* The state: the last function called, its argument and what it returned, *)
(* the byte buffer at hand, and the value the buffer was encoded from      *)
(* (<<>> when it came from the transport).  The codec keeps nothing from   *)
(* one buffer to the next: a value is built or a buffer arrives, parsers   *)
(* run on it, and it is dropped.                                           *)
(***************************************************************************)
NoValue == <<>>

\* App::new
App_new ==
    /\ tabs = TabsState_new(<<"app", "logs">>)
    /\ connection = <<>>
    /\ neutron_state = NeutronState_new
    /\ command_history = <<>>
    /\ midi_in_messages = <<>>
    /\ midi_receiver = <<>>
    /\ basic_menu = ListState_new(MenuNames)
    /\ log = <<>>
    /\ log_receiver = <<>>
    /\ should_quit = FALSE

Init ==
    /\ call = "new"
    /\ arg = NoValue
    /\ ret = NoValue
    /\ bytes = <<>>
    /\ source = NoValue
    /\ App_new

Idle == call = "new"

\* NeutronMessage::as_bytes
AsBytes ==
    /\ Idle
    /\ \E m \in NeutronMessage :
           /\ call' = "as_bytes"
           /\ arg' = m
           /\ ret' = as_bytes(m)
           /\ bytes' = ret'
           /\ source' = m
    /\ UNCHANGED app

\* to_vec(gs): GlobalSetting::append_to on an empty buffer
AppendTo ==
    /\ Idle
    /\ \E gs \in GlobalSetting :
           /\ call' = "append_to"
           /\ arg' = gs
           /\ ret' = to_vec(gs)
           /\ bytes' = ret'
           /\ source' = gs
    /\ UNCHANGED app

\* the transport delivers a raw buffer
Receive ==
    /\ Idle
    /\ \E buffer \in ReceivedBuffers :
           /\ call' = "receive"
           /\ arg' = NoValue
           /\ ret' = NoValue
           /\ bytes' = buffer
           /\ source' = NoValue
    /\ UNCHANGED app

HasBuffer == call \in {"as_bytes", "append_to", "receive"}

\* parser::neutron_message on the buffer
NeutronMessageParse ==
    /\ HasBuffer
    /\ call' = "neutron_message"
    /\ arg' = bytes
    /\ ret' = neutron_message(bytes)
    /\ UNCHANGED <<bytes, source>>
    /\ UNCHANGED app

\* parser::global_setting on the buffer
GlobalSettingParse ==
    /\ HasBuffer
    /\ call' = "global_setting"
    /\ arg' = bytes
    /\ ret' = global_setting(bytes)
    /\ UNCHANGED <<bytes, source>>
    /\ UNCHANGED app

\* parser::device_id on the buffer
DeviceIdParse ==
    /\ HasBuffer
    /\ call' = "device_id"
    /\ arg' = bytes
    /\ ret' = device_id(bytes)
    /\ UNCHANGED <<bytes, source>>
    /\ UNCHANGED app

\* Percent::from_byte
FromByte ==
    /\ Idle
    /\ \E v \in Byte :
           /\ call' = "from_byte"
           /\ arg' = <<v>>
           /\ ret' = from_byte(v)
           /\ bytes' = <<>>
           /\ source' = NoValue
    /\ UNCHANGED app

\* Percent::from_percentage
FromPercentage ==
    /\ Idle
    /\ \E v \in Byte :
           /\ call' = "from_percentage"
           /\ arg' = <<v>>
           /\ ret' = from_percentage(v)
           /\ bytes' = <<>>
           /\ source' = NoValue
    /\ UNCHANGED app

\* the payload bytes a value parser is given: nothing, one byte, or one
\* byte and more
PayloadBuffers ==
    {<<>>} \cup {<<b>> : b \in Byte} \cup {<<b, 0>> : b \in Byte}

\* the bytes after an opcode are at hand
Payload ==
    /\ Idle
    /\ \E input \in PayloadBuffers :
           /\ call' = "payload"
           /\ arg' = NoValue
           /\ ret' = NoValue
           /\ bytes' = input
           /\ source' = NoValue
    /\ UNCHANGED app

\* one of the parsers of enumerated values on the payload
ValueParse ==
    /\ call = "payload"
    /\ \E p \in ValueParsers :
           /\ call' = p
           /\ arg' = bytes
           /\ ret' = value_parser(p, bytes)
    /\ UNCHANGED <<bytes, source>>
    /\ UNCHANGED app

\* parser::percent on the payload
PercentParse ==
    /\ call = "payload"
    /\ call' = "percent"
    /\ arg' = bytes
    /\ ret' = percent(bytes)
    /\ UNCHANGED <<bytes, source>>
    /\ UNCHANGED app

\* the buffer and the values made from it go out of scope
Drop ==
    /\ ~Idle
    /\ call' = "new"
    /\ arg' = NoValue
    /\ ret' = NoValue
    /\ bytes' = <<>>
    /\ source' = NoValue
    /\ UNCHANGED app

Next ==
    \/ FromByte
    \/ FromPercentage
    \/ Payload
    \/ ValueParse
    \/ PercentParse
    \/ AsBytes
    \/ AppendTo
    \/ Receive
    \/ NeutronMessageParse
    \/ GlobalSettingParse
    \/ DeviceIdParse
    \/ Drop

Spec == Init /\ [][Next]_vars

(***************************************************************************)
(* src/app.rs: App.  connection holds the calls of send_message made on    *)
(* the MidiConnection, each with its outcome; midi_receiver and            *)
(* log_receiver hold what is in their channels.  While a command is under  *)
(* way call is "command" and arg the buffer it was given: its history      *)
(* entry is written and its bytes are not yet handed to the connection.    *)
(***************************************************************************)
\* the buffers App::command is called with directly: no bytes, bytes that
\* are no SysEx frame, the sample frames, and the sample frames followed by
\* one more byte
CommandBuffers ==
    {<<>>, <<1, 2, 3>>, <<255>>} \cup SampleFrames \cup {f \o <<0>> : f \in SampleFrames}

\* the buffers the MIDI input callback hands over
DeliveredBuffers ==
    {NEUTRON_MESSAGE_HEADER \o <<0, 90, 1, 15, 1, SYSEX_EOX>>, <<1, 2, 3>>}

\* the messages NeutronState::update is called with: every message to the
\* multicast address, and every message that carries ParaphonicMode
UpdateMessages ==
    {m \in NeutronMessage :
        \/ m[2] = <<"Multicast">>
        \/ (m[1] \in {"SetGlobalSetting", "GlobalSettingUpdate"}
            /\ m[3][1] = "ParaphonicMode")}

\* the lists a ListState is built over
MenuLists == {SubSeq(MenuNames, 1, n) : n \in 1..MaxItems} \cup {MenuNames}

\* the event loop hands events over until should_quit, one at a time
Running == ~should_quit /\ call # "command"

LogRoom == Len(log_receiver) + Len(log) < MaxLogLines

\* faulty variant of App::command: a buffer that does not decode leaves no
\* history entry
command_decoded_only(message) ==
    /\ Len(command_history) < MaxCommands
    /\ call' = "command"
    /\ arg' = message
    /\ command_history' =
           LET r == neutron_message(message)
           IN  IF r.ok
               THEN Append(command_history, NeutronMessage_to_string(r.val))
               ELSE command_history

\* App::command up to the call of send_message: the buffer is decoded and
\* its history entry pushed
command(message) ==
    /\ Len(command_history) < MaxCommands
    /\ call' = "command"
    /\ arg' = message
    /\ command_history' =
           LET r == neutron_message(message)
           IN  IF r.ok
               THEN Append(command_history, NeutronMessage_to_string(r.val))
               ELSE Append(command_history, hex_encode(message))

\* faulty variant of SendMessage: a buffer that did not decode is not sent
SendMessageDecoded ==
    /\ call = "command"
    /\ \E result \in {"Ok", "Err"} :
           /\ connection' = IF neutron_message(arg).ok
                            THEN Append(connection, [message |-> arg, result |-> result])
                            ELSE connection
           /\ IF result = "Err"
              THEN /\ LogRoom
                   /\ log_receiver' =
                          Append(log_receiver, log_line("ERROR", "No connection established."))
              ELSE UNCHANGED log_receiver
    /\ call' = "send_message"
    /\ UNCHANGED <<arg, ret, bytes, source, tabs, neutron_state, command_history,
                   midi_in_messages, midi_receiver, basic_menu, log, should_quit>>

\* App::command from the call of send_message on: the connection is given
\* the bytes, and an error it returns is logged
SendMessage ==
    /\ call = "command"
    /\ \E result \in {"Ok", "Err"} :
           /\ connection' = Append(connection, [message |-> arg, result |-> result])
           /\ IF result = "Err"
              THEN /\ LogRoom
                   /\ log_receiver' =
                          Append(log_receiver, log_line("ERROR", "No connection established."))
              ELSE UNCHANGED log_receiver
    /\ call' = "send_message"
    /\ UNCHANGED <<arg, ret, bytes, source, tabs, neutron_state, command_history,
                   midi_in_messages, midi_receiver, basic_menu, log, should_quit>>

\* App::command called with a buffer
CommandCall ==
    /\ call # "command"
    /\ \E message \in CommandBuffers : command(message)
    /\ UNCHANGED <<ret, bytes, source, tabs, connection, neutron_state, midi_in_messages,
                   midi_receiver, basic_menu, log, log_receiver, should_quit>>

\* handle_event, Key::Char('s')
KeyRequestState ==
    /\ Running
    /\ command(maybe_request_state)
    /\ UNCHANGED <<ret, bytes, source, tabs, connection, neutron_state, midi_in_messages,
                   midi_receiver, basic_menu, log, log_receiver, should_quit>>

\* handle_event, Key::Char('P'), 'p', 'Y' and 'y'
KeyToggle ==
    /\ Running
    /\ \E gs \in {<<"ParaphonicMode", "On">>, <<"ParaphonicMode", "Off">>,
                  <<"OscSync", "On">>, <<"OscSync", "Off">>} :
           command(as_bytes(<<"SetGlobalSetting", <<"Multicast">>, gs>>))
    /\ UNCHANGED <<ret, bytes, source, tabs, connection, neutron_state, midi_in_messages,
                   midi_receiver, basic_menu, log, log_receiver, should_quit>>

\* handle_event, Key::Char('\n')
KeyEnter ==
    /\ Running
    /\ Len(command_history) < MaxMenuCommands
    /\ command(as_bytes(<<"SetGlobalSetting", <<"Multicast">>,
                          MENU_MAPPINGS[basic_menu.selection + 1][2]>>))
    /\ UNCHANGED <<ret, bytes, source, tabs, connection, neutron_state, midi_in_messages,
                   midi_receiver, basic_menu, log, log_receiver, should_quit>>

\* handle_event, Key::Char('\t')
KeyTab ==
    /\ Running
    /\ LogRoom
    /\ call' = "handle_event"
    /\ arg' = <<"Input", "Tab">>
    /\ log_receiver' = Append(log_receiver, log_line("INFO", "Switched tabs!"))
    /\ tabs' = TabsState_next(tabs)
    /\ UNCHANGED <<ret, bytes, source, connection, neutron_state, command_history,
                   midi_in_messages, midi_receiver, basic_menu, log, should_quit>>

\* handle_event, Key::Down
KeyDown ==
    /\ Running
    /\ call' = "handle_event"
    /\ arg' = <<"Input", "Down">>
    /\ basic_menu' = select_next(basic_menu)
    /\ UNCHANGED <<ret, bytes, source, tabs, connection, neutron_state, command_history,
                   midi_in_messages, midi_receiver, log, log_receiver, should_quit>>

\* handle_event, Key::Up
KeyUp ==
    /\ Running
    /\ call' = "handle_event"
    /\ arg' = <<"Input", "Up">>
    /\ basic_menu' = select_previous(basic_menu)
    /\ UNCHANGED <<ret, bytes, source, tabs, connection, neutron_state, command_history,
                   midi_in_messages, midi_receiver, log, log_receiver, should_quit>>

\* handle_event, Key::Char('q')
KeyQuit ==
    /\ Running
    /\ call' = "handle_event"
    /\ arg' = <<"Input", "q">>
    /\ should_quit' = TRUE
    /\ UNCHANGED <<ret, bytes, source, tabs, connection, neutron_state, command_history,
                   midi_in_messages, midi_receiver, basic_menu, log, log_receiver>>

\* handle_event, any other key
KeyOther ==
    /\ Running
    /\ call' = "handle_event"
    /\ arg' = <<"Input", "Other">>
    /\ UNCHANGED <<ret, bytes, source, app>>

\* faulty variant of Tick: the receiver is drained from its newest end
TickNewest ==
    /\ Running
    /\ call' = "handle_event"
    /\ arg' = <<"Tick">>
    /\ IF midi_receiver # <<>>
       THEN /\ midi_in_messages' =
                   Append(midi_in_messages, midi_receiver[Len(midi_receiver)])
            /\ midi_receiver' = SubSeq(midi_receiver, 1, Len(midi_receiver) - 1)
       ELSE UNCHANGED <<midi_in_messages, midi_receiver>>
    /\ IF log_receiver # <<>>
       THEN /\ log' = Append(log, Head(log_receiver))
            /\ log_receiver' = Tail(log_receiver)
       ELSE UNCHANGED <<log, log_receiver>>
    /\ UNCHANGED <<ret, bytes, source, tabs, connection, neutron_state, command_history,
                   basic_menu, should_quit>>

\* handle_event, Event::Tick
Tick ==
    /\ Running
    /\ call' = "handle_event"
    /\ arg' = <<"Tick">>
    /\ IF midi_receiver # <<>>
       THEN /\ midi_in_messages' = Append(midi_in_messages, Head(midi_receiver))
            /\ midi_receiver' = Tail(midi_receiver)
       ELSE UNCHANGED <<midi_in_messages, midi_receiver>>
    /\ IF log_receiver # <<>>
       THEN /\ log' = Append(log, Head(log_receiver))
            /\ log_receiver' = Tail(log_receiver)
       ELSE UNCHANGED <<log, log_receiver>>
    /\ UNCHANGED <<ret, bytes, source, tabs, connection, neutron_state, command_history,
                   basic_menu, should_quit>>

\* the MIDI input callback sends a buffer into the channel
Deliver ==
    /\ Len(midi_receiver) + Len(midi_in_messages) < MaxDelivered
    /\ \E msg \in DeliveredBuffers : midi_receiver' = Append(midi_receiver, msg)
    /\ UNCHANGED <<call, arg, ret, bytes, source, tabs, connection, neutron_state,
                   command_history, midi_in_messages, basic_menu, log, log_receiver,
                   should_quit>>

\* ApplicationLogger::write for a record logged outside the handlers
LogWrite ==
    /\ LogRoom
    /\ log_receiver' = Append(log_receiver, log_line("WARN", "Could not find Neutron."))
    /\ UNCHANGED <<call, arg, ret, bytes, source, tabs, connection, neutron_state,
                   command_history, midi_in_messages, midi_receiver, basic_menu, log,
                   should_quit>>

\* NeutronState::update called with a message
Update ==
    /\ call # "command"
    /\ \E message \in UpdateMessages :
           /\ call' = "update"
           /\ arg' = message
           /\ neutron_state' = update(neutron_state, message)
    /\ UNCHANGED <<ret, bytes, source, tabs, connection, command_history, midi_in_messages,
                   midi_receiver, basic_menu, log, log_receiver, should_quit>>

\* commands: App::command called directly and by the keys that send
CommandNext ==
    \/ CommandCall
    \/ KeyRequestState
    \/ KeyToggle
    \/ KeyEnter
    \/ SendMessage

CommandSpec == Init /\ [][CommandNext]_vars

\* the menu: a ListState over any of the lists, the cursor keys and Enter
MenuInit ==
    /\ call = "new"
    /\ arg = NoValue
    /\ ret = NoValue
    /\ bytes = <<>>
    /\ source = NoValue
    /\ tabs = TabsState_new(<<"app", "logs">>)
    /\ connection = <<>>
    /\ neutron_state = NeutronState_new
    /\ command_history = <<>>
    /\ midi_in_messages = <<>>
    /\ midi_receiver = <<>>
    /\ basic_menu \in {ListState_new(items) : items \in MenuLists}
    /\ log = <<>>
    /\ log_receiver = <<>>
    /\ should_quit = FALSE

MenuNext ==
    \/ KeyDown
    \/ KeyUp
    \/ KeyEnter
    \/ SendMessage

MenuSpec == MenuInit /\ [][MenuNext]_vars

\* the inbound side: deliveries, log records, ticks and keys that send
\* nothing
TickNext ==
    \/ Deliver
    \/ LogWrite
    \/ Tick
    \/ KeyTab
    \/ KeyOther
    \/ KeyQuit

TickSpec == Init /\ [][TickNext]_vars

\* while the application runs the event source produces a Tick every tick
\* period: a Tick that has something to move is handled in the end
TickLiveSpec == TickSpec /\ WF_vars(Tick)

\* the settings mirror
StateNext ==
    \/ Update

StateSpec == Init /\ [][StateNext]_vars

(***************************************************************************)
(* Properties                                                              *)
(***************************************************************************)
\* the buffer at hand was written by append_to / by as_bytes
EncodedSetting == source \in GlobalSetting
EncodedMessage == source # NoValue /\ ~EncodedSetting

\* the number N of a channel, 1..16
ChannelNumber(c) == CHOOSE n \in 1..Len(ChannelOrder) : ChannelOrder[n] = c

IsAscii(v) == \A i \in 1..Len(v) : v[i] < 128

\* C1: catalogue round trip.  Parsing the bytes append_to wrote for a
\* GlobalSetting whose payload is not a Percent succeeds with an empty
\* remainder and returns the same variant and payload.
CatalogueRoundTrip ==
    (call = "global_setting" /\ source \in GlobalSettingOfProtocol
        /\ source[1] \notin PercentVariants)
    => ret = Ok(<<>>, source)

\* C2: message round trip.  For every NeutronMessage, neutron_message on
\* the output of as_bytes succeeds with an empty remainder and returns a
\* message equal to the original.
MessageRoundTrip ==
    (call = "neutron_message" /\ EncodedMessage) => ret = Ok(<<>>, source)

\* C3: device-address wire encoding.  Channel N is emitted as the byte N-1,
\* as a DeviceId and as the payload of MidiChannel, the broadcast as 0x7F,
\* and the decoder maps N-1 back to channel N and 0x7F back to broadcast.
DeviceAddressWireEncoding ==
    /\ (call = "as_bytes" /\ source[2][1] = "Channel")
        => bytes[6] = ChannelNumber(source[2][2]) - 1
    /\ (call = "as_bytes" /\ source[2][1] = "Multicast") => bytes[6] = 127
    /\ (call = "append_to" /\ source[1] = "MidiChannel")
        => bytes[2] = ChannelNumber(source[2]) - 1
    /\ (call = "device_id" /\ Len(bytes) >= 1 /\ bytes[1] \in 0..15)
        => (ret.ok /\ ret.val = <<"Channel", ChannelOrder[bytes[1] + 1]>>)
    /\ (call = "device_id" /\ Len(bytes) >= 1 /\ bytes[1] = 127)
        => (ret.ok /\ ret.val = <<"Multicast">>)

\* C4: invalid device addresses are rejected.  device_id fails on a buffer
\* that starts with a byte in 0x10..0x7E, and neutron_message fails on a
\* buffer whose device-address byte (offset 5) is in 0x10..0x7E, whatever
\* follows.
InvalidDeviceAddressRejected ==
    /\ (call = "device_id" /\ Len(bytes) >= 1 /\ bytes[1] \in 16..126) => ~ret.ok
    /\ (call = "neutron_message" /\ Len(bytes) >= 6 /\ bytes[6] \in 16..126) => ~ret.ok

InvalidDeviceAddressRejectedWitness ==
    /\ call = "neutron_message"
    /\ bytes = <<240, 0, 32, 50, 40, 126, 10, 15, 1, 247>>
    /\ ret = Failure

\* C5: envelope layout.  SetGlobalSetting(d, g) is F0 00 20 32 28, the
\* address byte of d, 0A, the bytes of g, F7; GlobalSettingUpdate(d, g) is
\* F0 00 20 32 28, the address byte of d, 5A 01, the bytes of g, F7.
EnvelopeLayout ==
    /\ (call = "as_bytes" /\ source[1] = "SetGlobalSetting")
        => bytes = <<240, 0, 32, 50, 40, DeviceId_as_byte(source[2]), 10>>
                   \o to_vec(source[3]) \o <<247>>
    /\ (call = "as_bytes" /\ source[1] = "GlobalSettingUpdate")
        => bytes = <<240, 0, 32, 50, 40, DeviceId_as_byte(source[2]), 90, 1>>
                   \o to_vec(source[3]) \o <<247>>
    /\ (call = "as_bytes"
        /\ source = <<"SetGlobalSetting", <<"Multicast">>, <<"ParaphonicMode", "On">>>>)
        => bytes = <<240, 0, 32, 50, 40, 127, 10, 15, 1, 247>>
    /\ (call = "as_bytes"
        /\ source = <<"GlobalSettingUpdate", <<"Channel", "One">>, <<"ParaphonicMode", "On">>>>)
        => bytes = <<240, 0, 32, 50, 40, 0, 90, 1, 15, 1, 247>>

EnvelopeLayoutWitness ==
    /\ call = "as_bytes"
    /\ source = <<"SetGlobalSetting", <<"Multicast">>, <<"ParaphonicMode", "On">>>>
    /\ bytes = <<240, 0, 32, 50, 40, 127, 10, 15, 1, 247>>

\* C6: version response.  For a non-empty ASCII string s,
\* SoftwareVersionResponse(d, s) is F0 00 20 32 28, the address byte of d,
\* 74 01, the bytes of s, F7, and neutron_message on it returns
\* SoftwareVersionResponse(d, s) with an empty remainder.
VersionResponseRoundTrip ==
    LET versioned == /\ EncodedMessage
                     /\ source[1] = "SoftwareVersionResponse"
                     /\ source[3] # <<>>
                     /\ IsAscii(source[3])
    IN  /\ (call = "as_bytes" /\ versioned)
            => bytes = <<240, 0, 32, 50, 40, DeviceId_as_byte(source[2]), 116, 1>>
                       \o source[3] \o <<247>>
        /\ (call = "neutron_message" /\ versioned) => ret = Ok(<<>>, source)

\* C7: percentage quantization.  from_percentage(x) has the byte
\* floor(min(x, 100) * 63 / 100): always in 0..63, 0 for 0, 63 for every
\* x >= 100, 31 for 50; and an LfoDepth or VcfModDepth built from 50%
\* decodes to the one built from the byte 31.
PercentageQuantization ==
    /\ call = "from_percentage"
        => LET x == arg[1]
               capped == IF x > 100 THEN 100 ELSE x
           IN  /\ Percent_as_byte(ret) = (capped * 63) \div 100
               /\ Percent_as_byte(ret) \in 0..63
               /\ (x = 0 => Percent_as_byte(ret) = 0)
               /\ (x >= 100 => Percent_as_byte(ret) = 63)
               /\ (x = 50 => Percent_as_byte(ret) = 31)
    /\ (call = "global_setting" /\ EncodedSetting
        /\ source[1] \in PercentVariants /\ source[2] = from_percentage(50))
        => ret = Ok(<<>>, <<source[1], from_byte(31)>>)

PercentageQuantizationWitness ==
    call = "from_percentage" /\ arg = <<50>> /\ ret = [value |-> 31]

\* C8: percentage round-trip fixed point.  For every level p in 0..63,
\* LfoDepth or VcfModDepth of from_byte(p) encodes and decodes to a Percent
\* whose byte is p again, and encoding and decoding that once more gives
\* the same result.
PercentRoundTripFixedPoint ==
    (call = "global_setting" /\ EncodedSetting /\ source[1] \in PercentVariants)
    => /\ ret.ok
       /\ ret.rest = <<>>
       /\ ret.val[1] = source[1]
       /\ Percent_as_byte(ret.val[2]) = Percent_as_byte(source[2])
       /\ global_setting(to_vec(ret.val)) = ret

PercentRoundTripFixedPointWitness ==
    /\ call = "global_setting"
    /\ source = <<"VcfModDepth", from_byte(31)>>
    /\ bytes = <<20, 31>>
    /\ ret.ok
    /\ Percent_as_byte(ret.val[2]) = 31

\* C9: from_byte caps its argument.  from_byte(v) has the byte min(v, 63),
\* so no Percent, constructed or decoded, holds more than 63.
FromByteCaps ==
    /\ call = "from_byte"
        => Percent_as_byte(ret) = (IF arg[1] > 63 THEN 63 ELSE arg[1])
    /\ call \in {"from_byte", "from_percentage"} => Percent_as_byte(ret) <= 63
    /\ (call = "global_setting" /\ ret.ok /\ ret.val[1] \in PercentVariants)
        => Percent_as_byte(ret.val[2]) <= 63

FromByteCapsWitness ==
    call = "from_byte" /\ arg = <<255>> /\ Percent_as_byte(ret) = 63

\* one message of each kind as_bytes can write
KindSamples ==
    {<<"SetGlobalSetting", <<"Multicast">>, <<"ParaphonicMode", "On">>>>,
     <<"RestoreGlobalSetting", <<"Multicast">>>>,
     <<"CalibrationModeCommand", <<"Multicast">>>>,
     <<"SoftwareVersionRequest", <<"Multicast">>>>,
     <<"SoftwareVersionResponse", <<"Multicast">>, <<49>>>>,
     <<"GlobalSettingUpdate", <<"Multicast">>, <<"ParaphonicMode", "On">>>>}

\* C10: opcode exclusivity within each dispatch table.  No two catalogue
\* variants are written with the same opcode byte, no two message kinds
\* with the same kind byte; the variant (kind) the decoder finds for an
\* opcode (kind byte) is the one that is written with it, and the decoder
\* finds every written variant.
OpcodeExclusivity ==
    /\ call = "append_to"
        => \A g \in GlobalSetting : g[1] # source[1] => to_vec(g)[1] # bytes[1]
    /\ (call = "global_setting" /\ ret.ok) => to_vec(ret.val)[1] = bytes[1]
    /\ (call = "global_setting" /\ EncodedSetting)
        => (ret.ok /\ ret.val[1] = source[1])
    /\ call = "as_bytes"
        => \A m \in KindSamples : m[1] # source[1] => as_bytes(m)[7] # bytes[7]
    /\ (call = "neutron_message" /\ ret.ok)
        => (as_bytes(ret.val)[7] = bytes[7]
            /\ bytes[7] \in {10, 11, 115, 116, 90})

OpcodeExclusivityWitness ==
    /\ call = "global_setting"
    /\ source = <<"LfoShapePhase", "Five", "ThreeHundredFifteen">>
    /\ bytes[1] = 58
    /\ ret.ok
    /\ ret.val[1] = "LfoShapePhase"

\* the kind bytes neutron_message dispatches on
MessageKindOpcodes == {10, 11, 115, 116, 90}

\* C11 as stated: every catalogue opcode, as written and as decoded, lies
\* in 0x00..0x3B and is none of the message-kind opcodes 0x0A, 0x0B, 0x73,
\* 0x74, 0x5A.
ParameterOpcodesApartFromKinds ==
    /\ call = "append_to"
        => (bytes[1] \in 0..59 /\ bytes[1] \notin MessageKindOpcodes)
    /\ (call = "global_setting" /\ ret.ok)
        => (bytes[1] \in 0..59 /\ bytes[1] \notin MessageKindOpcodes)

\* C11 as amended: every catalogue opcode, as written and as decoded, lies
\* in 0x00..0x3B and is none of 0x73, 0x74, 0x5A; 0x0A is the opcode of
\* DisableMidiDips and 0x0B the opcode of KeyRangeMute, and of no other
\* variant.
ParameterOpcodesInRange ==
    /\ call = "append_to"
        => /\ bytes[1] \in 0..59
           /\ bytes[1] \notin {115, 116, 90}
           /\ (bytes[1] = 10 <=> source[1] = "DisableMidiDips")
           /\ (bytes[1] = 11 <=> source[1] = "KeyRangeMute")
    /\ (call = "global_setting" /\ ret.ok)
        => /\ bytes[1] \in 0..59
           /\ bytes[1] \notin {115, 116, 90}
           /\ (bytes[1] = 10 <=> ret.val[1] = "DisableMidiDips")
           /\ (bytes[1] = 11 <=> ret.val[1] = "KeyRangeMute")

ParameterOpcodesInRangeWitness ==
    /\ call = "global_setting"
    /\ source = <<"KeyRangeMute", "On">>
    /\ bytes = <<11, 1>>
    /\ ret = Ok(<<>>, <<"KeyRangeMute", "On">>)

\* C12: encoding is injective.  Two different catalogue values are written
\* as different byte sequences by append_to, and two different messages as
\* different byte sequences by as_bytes.
EncodingInjective ==
    /\ call = "append_to"
        => \A g \in GlobalSetting : to_vec(g) = bytes => g = source
    /\ call = "as_bytes"
        => \A m \in NeutronMessage : as_bytes(m) = bytes => m = source

\* the values of each enumerated codec, in the order of their bytes
CodecTable(p) ==
    CASE p = "toggle_option" -> <<"Off", "On">>
      [] p = "blend_mode" -> <<"Blend", "Switch">>
      [] p = "retrigger_mode" -> <<"Staccato", "Legato">>
      [] p = "osc_range" -> <<"ThirtyTwo", "Sixteen", "Eight", "PlusMinusTen">>
      [] p = "autoglide_semitones" -> AutoglideSemitonesOrder
      [] p = "key_track_mode" -> <<"Track", "Hold">>
      [] p = "lfo_index" -> <<"One", "Two", "Three", "Four", "Five">>
      [] p = "lfo_shape" -> <<"Sine", "Triangle", "FallingSaw", "Square", "RisingSaw">>
      [] p = "lfo_phase_offset" ->
            <<"Zero", "FourtyFive", "Ninety", "HundredThirtyFive", "HundredEighty",
              "TwoHundredTwentyFive", "TwoHundredSeventy", "ThreeHundredFifteen">>
      [] p = "mod_source" -> <<"Off", "AfterTouch", "ModWheel", "Velocity">>
      [] p = "assign_out_option" -> <<"Osc1", "Osc2", "Velocity", "ModWheel", "AfterTouch">>
      [] p = "channel" -> ChannelOrder

\* the as_byte of the type a value parser returns
Codec_as_byte(p, v) ==
    CASE p = "toggle_option" -> ToggleOption_as_byte(v)
      [] p = "blend_mode" -> BlendMode_as_byte(v)
      [] p = "retrigger_mode" -> RetriggerMode_as_byte(v)
      [] p = "osc_range" -> OscRange_as_byte(v)
      [] p = "autoglide_semitones" -> AutoglideSemitones_as_byte(v)
      [] p = "key_track_mode" -> KeyTrackMode_as_byte(v)
      [] p = "lfo_index" -> LfoIndex_as_byte(v)
      [] p = "lfo_shape" -> LfoShape_as_byte(v)
      [] p = "lfo_phase_offset" -> LfoPhaseOffset_as_byte(v)
      [] p = "mod_source" -> ModSource_as_byte(v)
      [] p = "assign_out_option" -> AssignOutOption_as_byte(v)
      [] p = "channel" -> Channel_as_byte(v)

\* C13: each enumerated value codec is exactly its table.  Decoding a byte
\* inside the codec's range consumes it and returns the table's value for
\* it, whose as_byte is that byte; decoding a byte outside the range is a
\* failure.
EnumCodecTables ==
    (call \in ValueParsers /\ Len(bytes) >= 1)
    => LET table == CodecTable(call)
       IN  IF bytes[1] < Len(table)
           THEN /\ ret = Ok(Tail(bytes), table[bytes[1] + 1])
                /\ Codec_as_byte(call, ret.val) = bytes[1]
           ELSE ~ret.ok

\* C14: the percentage codec accepts exactly the bytes 0x00..0x3F.  An
\* LfoDepth (0x34) or VcfModDepth (0x14) entry decodes to the level of its
\* payload byte when that byte is in 0x00..0x3F, and is a decode failure
\* when it is in 0x40..0xFF.
PercentCodecRejectsOutOfRange ==
    /\ (call = "global_setting" /\ Len(bytes) >= 2 /\ bytes[1] \in {52, 20})
        => IF bytes[2] \in 0..63
           THEN ret.ok /\ Percent_as_byte(ret.val[2]) = bytes[2]
           ELSE ~ret.ok
    /\ (call = "percent" /\ Len(bytes) >= 1)
        => IF bytes[1] \in 0..63
           THEN ret.ok /\ Percent_as_byte(ret.val) = bytes[1]
           ELSE ~ret.ok

\* C15: unit-payload variants discard their placeholder byte.  For every
\* byte b, decoding [0x39, b] yields LfoResetOrder and decoding [0x06, b]
\* yields KeyRangeReset, each consuming exactly two bytes; encoding writes
\* 0x00 as the placeholder.
UnitPayloadDiscarded ==
    /\ (call = "global_setting" /\ Len(bytes) >= 2 /\ bytes[1] = 57)
        => ret = Ok(SubSeq(bytes, 3, Len(bytes)), <<"LfoResetOrder">>)
    /\ (call = "global_setting" /\ Len(bytes) >= 2 /\ bytes[1] = 6)
        => ret = Ok(SubSeq(bytes, 3, Len(bytes)), <<"KeyRangeReset">>)
    /\ (call = "append_to" /\ source = <<"LfoResetOrder">>) => bytes = <<57, 0>>
    /\ (call = "append_to" /\ source = <<"KeyRangeReset">>) => bytes = <<6, 0>>

\* the opcodes global_setting dispatches on
CatalogueOpcodes ==
    {15, 14, 32, 33, 34, 35, 38, 39, 42, 48, 55, 49, 59, 53, 52, 57, 17, 20,
     0, 10, 8, 36, 37, 11, 6, 56, 58, 18, 4, 5}

\* the buffer starts with the header and a valid device address
AddressedFrame ==
    /\ Len(bytes) >= 6
    /\ SubSeq(bytes, 1, 5) = NEUTRON_MESSAGE_HEADER
    /\ bytes[6] \in 0..15 \cup {127}

\* C16: unknown opcodes are rejected with a returned failure.
\* global_setting on input whose first byte is not a catalogue opcode
\* returns an error value, and neutron_message on a buffer with a valid
\* header and device address but a kind byte outside 0x0A, 0x0B, 0x73,
\* 0x74, 0x5A returns an error value.
UnknownOpcodeRejected ==
    /\ (call = "global_setting" /\ Len(bytes) >= 1 /\ bytes[1] \notin CatalogueOpcodes)
        => ret \in {Error, Failure}
    /\ (call = "neutron_message" /\ AddressedFrame /\ Len(bytes) >= 7
        /\ bytes[7] \notin MessageKindOpcodes)
        => ret \in {Error, Failure}

UnknownOpcodeRejectedWitness ==
    /\ call = "neutron_message"
    /\ source = <<"CalibrationModeCommand", <<"Multicast">>>>
    /\ bytes = <<240, 0, 32, 50, 40, 127, 16, 247>>
    /\ ret = Error

\* how many bytes of the buffer a successful parse consumed
Consumed == Len(bytes) - Len(ret.rest)

\* C17: literal framing is verified exactly and without resynchronisation.
\* neutron_message fails on any buffer whose first five bytes are not
\* F0 00 20 32 28, a valid frame preceded by an extra byte included, and on
\* any buffer in which the byte after the decoded payload is not 0xF7: a
\* successful parse starts at the header and ends at a terminator that
\* follows the payload directly.
LiteralFramingVerified ==
    /\ (call = "neutron_message"
        /\ (Len(bytes) < 5 \/ SubSeq(bytes, 1, 5) # NEUTRON_MESSAGE_HEADER))
        => ret \in {Error, Failure}
    /\ (call = "neutron_message" /\ Len(bytes) >= 2 /\ Tail(bytes) \in SampleFrames)
        => ret \in {Error, Failure}
    /\ (call = "neutron_message" /\ Len(bytes) >= 1 /\ bytes[Len(bytes)] # SYSEX_EOX
        /\ ReplaceAt(bytes, Len(bytes), SYSEX_EOX) \in SampleFrames)
        => ret \in {Error, Failure}
    /\ (call = "neutron_message" /\ ret.ok)
        => /\ bytes[Consumed] = SYSEX_EOX
           /\ ret.val[1] # "SoftwareVersionResponse"
                => Consumed = Len(as_bytes(ret.val))
           /\ ret.val[1] = "SoftwareVersionResponse"
                => \A i \in 9..(Consumed - 1) : bytes[i] # SYSEX_EOX

LiteralFramingVerifiedWitness ==
    /\ call = "neutron_message"
    /\ bytes = <<240, 240, 0, 32, 50, 40, 127, 10, 15, 1, 247>>
    /\ ret = Error

\* the buffer is a sample frame of a kind other than the version response
\* with extra bytes put in between its payload and its final terminator
TrailingBeforeTerminator ==
    \E f \in SampleFrames :
        /\ f[7] # 116
        /\ Len(bytes) > Len(f)
        /\ SubSeq(bytes, 1, Len(f) - 1) = SubSeq(f, 1, Len(f) - 1)
        /\ bytes[Len(bytes)] = SYSEX_EOX

\* C18: trailing bytes before the terminator are a failure.  For a valid
\* encoded SetGlobalSetting, GlobalSettingUpdate, RestoreGlobalSetting or
\* SoftwareVersionRequest message, one or more extra bytes between the end
\* of its payload and its final 0xF7 make neutron_message fail.
TrailingBytesRejected ==
    (call = "neutron_message" /\ TrailingBeforeTerminator) => ret \in {Error, Failure}

\* C19: the protocol-version byte is checked.  A buffer with kind 0x74 or
\* 0x5A decodes only if the next byte is exactly 0x01, and fails for every
\* other value and when that byte is missing; a 0x0A message is never
\* parsed with a version byte: its catalogue entry starts directly after
\* the kind byte.
ProtocolVersionChecked ==
    /\ (call = "neutron_message" /\ AddressedFrame /\ Len(bytes) >= 7
        /\ bytes[7] \in {116, 90}
        /\ (Len(bytes) < 8 \/ bytes[8] # 1))
        => ret \in {Error, Failure}
    /\ (call = "neutron_message" /\ ret.ok /\ bytes[7] \in {116, 90})
        => (bytes[8] = 1
            /\ ret.val[1] \in {"SoftwareVersionResponse", "GlobalSettingUpdate"})
    /\ (call = "neutron_message" /\ ret.ok /\ bytes[7] = 90)
        => global_setting(SubSeq(bytes, 9, Len(bytes))).val = ret.val[3]
    /\ (call = "neutron_message" /\ ret.ok /\ bytes[7] = 10)
        => (ret.val[1] = "SetGlobalSetting"
            /\ global_setting(SubSeq(bytes, 8, Len(bytes))).val = ret.val[3])
    /\ (call = "neutron_message"
        /\ bytes = <<240, 0, 32, 50, 40, 127, 10, 1, 15, 1, 247>>)
        => ret \in {Error, Failure}

ProtocolVersionCheckedWitness ==
    /\ call = "neutron_message"
    /\ bytes = <<240, 0, 32, 50, 40, 127, 90, 2, 15, 1, 247>>
    /\ ret = Error

\* C20: truncated input fails cleanly.  For every message m and every
\* proper prefix p of m.as_bytes(), the empty buffer included,
\* neutron_message(p) returns an error value and never a message.
TruncatedInputFails ==
    (call = "neutron_message" /\ bytes \in TruncatedFrames) => ret \in {Error, Failure}

TruncatedInputFailsWitness ==
    /\ call = "neutron_message"
    /\ bytes = <<240, 0, 32, 50, 40, 127, 116, 1, 49, 46, 50>>
    /\ bytes \in TruncatedFrames
    /\ ret = Error

\* C22: bytes after the terminator are not accepted.  A valid frame
\* followed by one or more bytes after its 0xF7 fails to decode, and a
\* successful neutron_message always leaves an empty remainder.
TrailingAfterTerminatorRejected ==
    call = "neutron_message"
        => /\ bytes \in TrailedFrames => ~ret.ok
           /\ ret.ok => ret.rest = <<>>

\* C23: two-field entries put the index first.  LfoShapeOrder(i, s) is
\* written 0x38, byte(i), byte(s) and LfoShapePhase(i, o) 0x3A, byte(i),
\* byte(o); 0x38 a b with a, b in 0..4 decodes to the (a+1)-th index and
\* shape b, 0x3A a b with a in 0..4 and b in 0..7 to the (a+1)-th index and
\* the offset of 45*b degrees, three bytes are consumed, and any other index
\* or value byte fails.
TwoFieldIndexFirst ==
    /\ (call = "append_to" /\ source[1] = "LfoShapeOrder")
        => bytes = <<56, LfoIndex_as_byte(source[2]), LfoShape_as_byte(source[3])>>
    /\ (call = "append_to" /\ source[1] = "LfoShapePhase")
        => bytes = <<58, LfoIndex_as_byte(source[2]), LfoPhaseOffset_as_byte(source[3])>>
    /\ (call = "global_setting" /\ Len(bytes) >= 3 /\ bytes[1] = 56)
        => IF bytes[2] \in 0..4 /\ bytes[3] \in 0..4
           THEN ret = Ok(SubSeq(bytes, 4, Len(bytes)),
                         <<"LfoShapeOrder", CodecTable("lfo_index")[bytes[2] + 1],
                           CodecTable("lfo_shape")[bytes[3] + 1]>>)
           ELSE ~ret.ok
    /\ (call = "global_setting" /\ Len(bytes) >= 3 /\ bytes[1] = 58)
        => IF bytes[2] \in 0..4 /\ bytes[3] \in 0..7
           THEN ret = Ok(SubSeq(bytes, 4, Len(bytes)),
                         <<"LfoShapePhase", CodecTable("lfo_index")[bytes[2] + 1],
                           CodecTable("lfo_phase_offset")[bytes[3] + 1]>>)
           ELSE ~ret.ok

TwoFieldIndexFirstWitness ==
    /\ call = "global_setting"
    /\ bytes = <<56, 0, 4, 0>>
    /\ ret = Ok(<<0>>, <<"LfoShapeOrder", "One", "RisingSaw">>)

\* the version string of the message m, if it has one, is ASCII
HasAsciiVersion(m) == m[1] = "SoftwareVersionResponse" => IsAscii(m[3])

\* C24: every encoded message is a well-formed SysEx frame.  For a message
\* whose version string, if it has one, is ASCII, as_bytes writes a buffer
\* that begins with F0 00 20 32 28, ends with F7, and has no byte above
\* 0x7F strictly between its first and its last byte.
WellFormedFrame ==
    (call = "as_bytes" /\ HasAsciiVersion(source))
    => /\ Len(bytes) > Len(NEUTRON_MESSAGE_HEADER)
       /\ SubSeq(bytes, 1, Len(NEUTRON_MESSAGE_HEADER)) = <<240, 0, 32, 50, 40>>
       /\ bytes[Len(bytes)] = 247
       /\ \A i \in 2..(Len(bytes) - 1) : bytes[i] <= 127

WellFormedFrameWitness ==
    /\ call = "as_bytes"
    /\ source = <<"SoftwareVersionResponse", <<"Multicast">>, <<49, 46, 50, 46, 51>>>>
    /\ bytes = <<240, 0, 32, 50, 40, 127, 116, 1, 49, 46, 50, 46, 51, 247>>

\* C26: decoding is canonical.  Whenever neutron_message succeeds on a
\* buffer with an empty remainder, and the version string of the decoded
\* message, if it has one, is ASCII, as_bytes of the decoded message is the
\* buffer, byte for byte.
DecodingCanonical ==
    (call = "neutron_message" /\ ret.ok /\ ret.rest = <<>> /\ HasAsciiVersion(ret.val))
    => as_bytes(ret.val) = bytes

\* C27: a version response needs at least one string byte.  as_bytes of
\* SoftwareVersionResponse(d, "") is F0 00 20 32 28, address, 74 01, F7,
\* neutron_message rejects a buffer of that shape, and a decoded
\* SoftwareVersionResponse never carries the empty string.
VersionNeedsByte ==
    /\ (call \in {"as_bytes", "neutron_message"} /\ EncodedMessage
        /\ source[1] = "SoftwareVersionResponse" /\ source[3] = <<>>)
        => bytes = <<240, 0, 32, 50, 40, DeviceId_as_byte(source[2]), 116, 1, 247>>
    /\ (call = "neutron_message" /\ Len(bytes) = 9
        /\ SubSeq(bytes, 1, 5) = NEUTRON_MESSAGE_HEADER
        /\ SubSeq(bytes, 7, 9) = <<116, COMMS_PROTOCOL_V1, SYSEX_EOX>>)
        => ~ret.ok
    /\ (call = "neutron_message" /\ ret.ok /\ ret.val[1] = "SoftwareVersionResponse")
        => ret.val[3] # <<>>

VersionNeedsByteWitness ==
    /\ call = "neutron_message"
    /\ source = <<"SoftwareVersionResponse", <<"Channel", "One">>, <<>>>>
    /\ bytes = <<240, 0, 32, 50, 40, 0, 116, 1, 247>>
    /\ ret = Error

\* the buffer the i-th command was given: the one the connection was handed,
\* or the one of the command under way
CommandMessage(i) == IF i <= Len(connection) THEN connection[i].message ELSE arg

\* C21: the hex fallback always succeeds.  Every call of App::command, with
\* any buffer, leaves exactly one history entry for its decode step: the
\* text of the decoded message when neutron_message succeeds, and the
\* lowercase hexadecimal digits of the whole buffer when it fails; a failed
\* decode does not keep the call from going on to send.
HexFallbackAlwaysSucceeds ==
    /\ Len(command_history) = Len(connection) + (IF call = "command" THEN 1 ELSE 0)
    /\ \A i \in 1..Len(command_history) :
           LET r == neutron_message(CommandMessage(i))
           IN  command_history[i] = IF r.ok THEN NeutronMessage_to_string(r.val)
                                    ELSE hex_encode(CommandMessage(i))
    /\ \A i \in 1..Len(command_history) :
           /\ CommandMessage(i) = <<>> => command_history[i] = ""
           /\ CommandMessage(i) = <<1, 2, 3>> => command_history[i] = "010203"
           /\ CommandMessage(i) = <<255>> => command_history[i] = "ff"
           /\ CommandMessage(i) = <<240, 0, 32, 50, 40, 127, 5, 247>>
                => command_history[i] = "f0002032287f05f7"
           /\ CommandMessage(i) = <<240, 0, 32, 50, 40, 127, 10, 15, 1, 247>>
                => command_history[i] = "SetGlobalSetting(Multicast, ParaphonicMode(On))"
           /\ CommandMessage(i) = <<240, 0, 32, 50, 40, 127, 116, 1, 49, 46, 50, 247>>
                => command_history[i] = "SoftwareVersionResponse(Multicast, \"1.2\")"
    /\ call = "command" => ENABLED SendMessage

HexFallbackAlwaysSucceedsWitness ==
    /\ call = "send_message"
    /\ arg = <<>>
    /\ command_history = <<"f0002032287f05f7", "">>
    /\ Len(connection) = 2

\* C28: App::command forwards unconditionally and in order.  The history
\* entry of a command is written before its bytes are sent; send_message is
\* then called once with the bytes the command was given, whether they
\* decoded or not; a send error is logged, adds no history entry, removes
\* none, and is not retried.
ForwardedUnconditionally ==
    /\ call = "command" => Len(connection) = Len(command_history) - 1
    /\ call # "command" => Len(connection) = Len(command_history)
    /\ call = "send_message" => connection[Len(connection)].message = arg
    /\ \A i \in 1..Len(connection) : connection[i].message \in CommandBuffers
           \cup {maybe_request_state}
           \cup {as_bytes(<<"SetGlobalSetting", <<"Multicast">>, MENU_MAPPINGS[k][2]>>) : k \in 1..4}
    /\ Len(log_receiver)
           = Cardinality({i \in 1..Len(connection) : connection[i].result = "Err"})
    /\ \A i \in 1..Len(log_receiver) :
           log_receiver[i] = "ERROR:rustron::app -- No connection established."

ForwardedUnconditionallyWitness ==
    /\ call = "send_message"
    /\ arg = <<1, 2, 3>>
    /\ connection = <<[message |-> <<240, 0, 32, 50, 40, 127, 11, 247>>, result |-> "Ok"],
                      [message |-> <<1, 2, 3>>, result |-> "Err"]>>
    /\ command_history = <<"RestoreGlobalSetting(Multicast)", "010203">>
    /\ Len(log_receiver) = 1

\* the message carries the ParaphonicMode setting, in either direction
CarriesParaphonicMode(m) ==
    /\ m[1] \in {"SetGlobalSetting", "GlobalSettingUpdate"}
    /\ m[3][1] = "ParaphonicMode"

\* C25: the settings mirror starts with paraphonic_mode false; an update
\* with a message that carries ParaphonicMode, set or reported and for any
\* device id, makes paraphonic_mode true exactly when the message carries
\* On and changes nothing else; an update with any other message leaves the
\* whole state as it was.  So after any sequence of updates paraphonic_mode
\* is what the most recent ParaphonicMode message carried.
SettingsMirror ==
    /\ neutron_state.global_settings.paraphonic_mode = FALSE
    /\ [][call' = "update" =>
            IF CarriesParaphonicMode(arg')
            THEN neutron_state' =
                     [neutron_state EXCEPT
                         !.global_settings.paraphonic_mode = (arg'[3][2] = "On")]
            ELSE neutron_state' = neutron_state]_vars
    /\ [](call = "update" /\ CarriesParaphonicMode(arg)
            => (neutron_state.global_settings.paraphonic_mode <=> arg[3][2] = "On"))

\* an update that reports ParaphonicMode On for channel one has set the
\* mirror, with the other fields as NeutronState::new left them
SettingsMirrorWitness ==
    /\ call = "update"
    /\ arg = <<"GlobalSettingUpdate", <<"Channel", "One">>, <<"ParaphonicMode", "On">>>>
    /\ neutron_state =
           [global_settings |-> [device_id |-> 0, paraphonic_mode |-> TRUE, osc_sync |-> FALSE]]

\* the bytes the Enter key sends for the highlighted entry
HighlightedCommand ==
    as_bytes(<<"SetGlobalSetting", <<"Multicast">>,
               MENU_MAPPINGS[basic_menu.selection + 1][2]>>)

\* the menu is a ListState over a non-empty list with its cursor inside it
CursorInBounds ==
    /\ Len(basic_menu.items) >= 1
    /\ basic_menu.selection \in 0..(Len(basic_menu.items) - 1)

\* C29: for a ListState built over a non-empty list of n items the
\* selection stays in 0..n-1 under any sequence of Down and Up keys: Down
\* moves it one on and wraps n-1 to 0, Up moves it one back and wraps 0 to
\* n-1, each undoes the other, and neither touches the items.  So Enter
\* indexes MENU_MAPPINGS with a selection below 35, and the command it
\* issues and sends is the SetGlobalSetting to the multicast address for the
\* highlighted entry.
MenuCursorInBounds ==
    /\ [](/\ CursorInBounds
          /\ Len(MENU_MAPPINGS) = 35
          /\ basic_menu.selection < Len(MENU_MAPPINGS)
          /\ select_previous(select_next(basic_menu)) = basic_menu
          /\ select_next(select_previous(basic_menu)) = basic_menu
          /\ call \in {"command", "send_message"} => arg = HighlightedCommand
          /\ call = "command" =>
                 command_history[Len(command_history)] =
                     "SetGlobalSetting(Multicast, "
                        \o GlobalSetting_fmt(MENU_MAPPINGS[basic_menu.selection + 1][2])
                        \o ")"
          /\ call = "send_message" =>
                 connection[Len(connection)].message = HighlightedCommand)
    /\ [][/\ basic_menu'.items = basic_menu.items
          /\ arg' = <<"Input", "Down">> =>
                 basic_menu'.selection =
                     IF basic_menu.selection = Len(basic_menu.items) - 1
                     THEN 0
                     ELSE basic_menu.selection + 1
          /\ arg' = <<"Input", "Up">> =>
                 basic_menu'.selection =
                     IF basic_menu.selection = 0
                     THEN Len(basic_menu.items) - 1
                     ELSE basic_menu.selection - 1
          /\ arg' \notin {<<"Input", "Down">>, <<"Input", "Up">>} =>
                 basic_menu' = basic_menu]_vars

\* Up on the first of the 35 entries wrapped to the last one, and Enter sent
\* its setting
MenuCursorInBoundsWitness ==
    /\ Len(basic_menu.items) = 35
    /\ basic_menu.selection = 34
    /\ call = "send_message"
    /\ command_history = <<"SetGlobalSetting(Multicast, VcfKeyTracking(Off))">>
    /\ Len(connection) = 1
    /\ connection[1].message =
           as_bytes(<<"SetGlobalSetting", <<"Multicast">>, <<"VcfKeyTracking", "Off">>>>)

\* every buffer the transport has delivered so far, in arrival order: those
\* already appended to midi_in_messages, then those still in the channel
Arrived == midi_in_messages \o midi_receiver

\* every log line written so far, in the order written
Written == log \o log_receiver

\* C30: every step moves at most one buffer from the MIDI receiver channel
\* to midi_in_messages, and the buffer moved is the oldest one in the
\* channel, put at the end; only a Tick moves one, a key event moves none;
\* the buffers delivered, taken in arrival order, only ever grow at the end,
\* so none is dropped, duplicated or reordered; the same holds for log
\* lines and log.  While the application runs and Ticks keep being handled,
\* every buffer delivered is eventually appended to midi_in_messages.
DrainedInArrivalOrder ==
    /\ [][/\ midi_in_messages' \in
                 {midi_in_messages} \cup
                 {Append(midi_in_messages, midi_receiver[i]) : i \in {1} \cap DOMAIN midi_receiver}
          /\ log' \in
                 {log} \cup
                 {Append(log, log_receiver[i]) : i \in {1} \cap DOMAIN log_receiver}
          /\ \/ Arrived' = Arrived
             \/ \E b \in DeliveredBuffers : Arrived' = Append(Arrived, b)
          /\ \/ Written' = Written
             \/ Len(Written') = Len(Written) + 1 /\ SubSeq(Written', 1, Len(Written)) = Written
          /\ (midi_in_messages' # midi_in_messages \/ log' # log) =>
                 call' = "handle_event" /\ arg' = <<"Tick">>
          /\ arg' # arg /\ arg' # <<"Tick">> =>
                 /\ midi_in_messages' = midi_in_messages
                 /\ midi_receiver' = midi_receiver
                 /\ log' = log]_vars
    /\ \A n \in 1..MaxDelivered :
           (Len(Arrived) >= n) ~> (Len(midi_in_messages) >= n \/ should_quit)

\* two different buffers were delivered and two Ticks appended them in the
\* order they arrived, leaving the channel empty
DrainedInArrivalOrderWitness ==
    /\ call = "handle_event"
    /\ arg = <<"Tick">>
    /\ midi_in_messages = <<NEUTRON_MESSAGE_HEADER \o <<0, 90, 1, 15, 1, SYSEX_EOX>>, <<1, 2, 3>>>>
    /\ midi_receiver = <<>>
    /\ ~should_quit

====
